---- MODULE Spec2Model ----
(***************************************************************************)
(* The per-frame render pipeline of bevy-hikari: the render sub-app's      *)
(* stages (extract, prepare, queue, render, cleanup), the systems that     *)
(* light.rs, prepass.rs and overlay.rs add to them, and the "hikari"       *)
(* render sub-graph that lib.rs builds and that is run once per view in    *)
(* the render stage.                                                       *)
(*                                                                         *)
(* Components that a system inserts through Commands become visible when   *)
(* the stage ends.  No system modelled here reads a component that another *)
(* system of the same stage inserts, so an insertion is written straight   *)
(* into the component's variable; the systems of one stage run in any      *)
(* order (the set todo holds the ones that have not run yet).  The render  *)
(* world's entities are cleared at the end of every frame, resources       *)
(* (FrameCounter, FrameUniform, OverlayBindGroup, CachedLightPipelines)    *)
(* live on.                                                                *)
(***************************************************************************)
EXTENDS Integers, Sequences, FiniteSets, TLC

\* ------------------------------------------------------------- bounds
NumViews == 2
MaxFrames == 2
\* number of handles in NoiseTexture (NOISE_TEXTURE_COUNT in the crate)
NumNoiseTextures == 2

Views == 1..NumViews

\* ---------------------------------------------------------- constants
\* WORKGROUP_SIZE, imported by light.rs from the crate root (8x8x1 tiles).
WORKGROUP_SIZE == 8

\* Option<UVec2>: None is <<>>, Some(UVec2(w, h)) is <<w, h>>.
NoSize == <<>>
Sizes == {<<9, 8>>}

\* Kinds of view entity after the host's camera extraction:
\*   "none"     no ExtractedCamera on the entity
\*   "other"    ExtractedCamera, but not an active 3D camera
\*   "active3d" ExtractedCamera of an active Camera3d
CameraKinds == {"none", "other", "active3d"}

\* ------------------------------------------------- the render sub-graph
INPUT_NODE == "GraphInputNode"
PREPASS == "prepass"
LIGHT_DIRECT_PASS == "light_direct_pass"
MAIN_PASS == "main_pass"
TONEMAPPING == "tonemapping"
END_MAIN_PASS_POST_PROCESSING == "end_main_pass_post_processing"
UPSCALING == "upscaling"
\* overlay.rs defines OverlayPassNode; it is a node only if the graph holds it.
OVERLAY == "overlay"

\* shine_graph.add_node(...) and set_input(...)
GraphNodes ==
    { PREPASS, MAIN_PASS, TONEMAPPING, END_MAIN_PASS_POST_PROCESSING,
      UPSCALING, LIGHT_DIRECT_PASS, INPUT_NODE }

\* shine_graph.add_slot_edge(input_node_id, VIEW_ENTITY, node, IN_VIEW)
SlotEdges ==
    { <<INPUT_NODE, PREPASS>>, <<INPUT_NODE, LIGHT_DIRECT_PASS>>,
      <<INPUT_NODE, MAIN_PASS>>, <<INPUT_NODE, TONEMAPPING>>,
      <<INPUT_NODE, UPSCALING>> }

\* add_node_edge(PREPASS, LIGHT_DIRECT_PASS) left out.
NodeEdges_NoPrepassLight ==
    { <<PREPASS, MAIN_PASS>>,
      <<LIGHT_DIRECT_PASS, MAIN_PASS>>,
      <<MAIN_PASS, TONEMAPPING>>,
      <<TONEMAPPING, END_MAIN_PASS_POST_PROCESSING>>,
      <<END_MAIN_PASS_POST_PROCESSING, UPSCALING>> }

\* The arguments of add_node_edge(PREPASS, MAIN_PASS) swapped.
NodeEdges_SwappedArgs ==
    { <<MAIN_PASS, PREPASS>>,
      <<PREPASS, LIGHT_DIRECT_PASS>>,
      <<LIGHT_DIRECT_PASS, MAIN_PASS>>,
      <<MAIN_PASS, TONEMAPPING>>,
      <<TONEMAPPING, END_MAIN_PASS_POST_PROCESSING>>,
      <<END_MAIN_PASS_POST_PROCESSING, UPSCALING>> }

\* shine_graph.add_node_edge(a, b), in the order of lib.rs
NodeEdges ==
    { <<PREPASS, MAIN_PASS>>,
      <<PREPASS, LIGHT_DIRECT_PASS>>,
      <<LIGHT_DIRECT_PASS, MAIN_PASS>>,
      <<MAIN_PASS, TONEMAPPING>>,
      <<TONEMAPPING, END_MAIN_PASS_POST_PROCESSING>>,
      <<END_MAIN_PASS_POST_PROCESSING, UPSCALING>> }

\* The sub-graph HikariPlugin::build hands to graph.add_sub_graph.
BuildGraph ==
    [nodes |-> GraphNodes, slot_edges |-> SlotEdges, node_edges |-> NodeEdges]

\* ------------------------------------------------------------ the state
VARIABLES
    stage,                  \* "begin", "extract", "prepare", "queue", "render", "panicked"
    todo,                   \* systems of the current stage that have not run yet
    graph,                  \* the "hikari" sub-graph registered by HikariPlugin::build
    counter,                \* FrameCounter.0
    frame_number,           \* GpuFrame.number held by FrameUniform.buffer
    frame_binding,          \* FrameUniform.buffer.binding().is_some()
    camera,                 \* view -> kind of camera extracted for it this frame
    physical_target_size,   \* view -> ExtractedCamera.physical_target_size
    prepass_phase,          \* view -> has RenderPhase<Prepass>
    overlay_phase,          \* view -> -1: no RenderPhase<Overlay>, else its number of items
    prepass_target,         \* view -> has PrepassTarget
    light_pass_target,      \* view -> has LightPassTarget
    view_bind_group,        \* view -> has ViewBindGroup
    light_bind_group,       \* view -> LightBindGroup (which copy `render` binds as what)
    deferred_entries,       \* view -> the texture views of LightBindGroup.deferred (<<>>: no bind group)
    cached_light_pipelines, \* the CachedLightPipelines resource exists
    overlay_bind_group,     \* OverlayBindGroup.bind_group: <<>> or <<view whose render image it binds>>
    noise_seen,             \* what queue_light_bind_groups found this frame: "unset", "missing", "ready"
    graph_view,             \* the view entity of the latest sub-graph run of the frame (0: none yet)
    overlay_view,           \* the view entity of the latest OverlayPassNode::run of the frame (0: none yet)
    trace,                  \* the nodes run for graph_view in its run, in order
    light_run,              \* what LightPassNode::run did, when it is the node that has just run
    overlay_run,            \* what OverlayPassNode::run did, when it is the node that has just run
    hist_current,           \* the copy queue_light_bind_groups bound as current in the frame before (-1: none)
    texture_cache,          \* TextureCache.textures: descriptor -> Vec of cached textures
    textures_created,       \* number of render_device.create_texture calls the cache made in this frame
    light_images,           \* view -> the GpuImages of its LightPassTarget (<<>>: no target)
    prepass_images,         \* view -> the GpuImages of its PrepassTarget (<<>>: no target)
    written,                \* the textures that hold data a lighting dispatch wrote
    last_size,              \* view -> its physical_target_size in the frame before
    frame_kernel,           \* GpuFrame.kernel held by FrameUniform.buffer
    mesh_stage,             \* the mesh systems' position: "extract", "prepare", "aborted"
    asset_state,            \* the MeshAssetState resource
    extracted_meshes,       \* the ExtractedMeshes resource: extracted and removed
    local_assets,           \* prepare_mesh_assets' Local map: mesh id -> GpuMesh
    gpu_meshes,             \* the GpuMeshes resource: mesh id -> (GpuMesh, GpuMeshSlice)
    render_assets,          \* the MeshRenderAssets resource: the three buffers
    buffer_written,         \* prepare_mesh_assets of this frame called write_buffer
    from_mesh_errors,       \* mesh ids for which GpuMesh::from_mesh returned Err in this frame
    event_order,            \* mesh id -> the order of its events among the latest frame's events
    live_meshes,            \* mesh ids whose latest event is an Added/Modified that found the asset
    queue_pc,               \* queue_prepass_meshes' position: "input", "queue", "done"
    mesh_entities,          \* entity -> its mesh as queue_prepass_meshes finds it
    visible_entities,       \* view -> VisibleEntities.entities
    prepass_items,          \* view -> the items of its RenderPhase<Prepass>, in order
    error_log,              \* the entities for which error!() was called, in order
    dispatched_views,       \* the views LightPassNode::run dispatched for in this frame
    last_written,           \* view -> the reservoir copy its latest lighting dispatch wrote (-1: none)
    material_stage,         \* the material systems' position: "extract", "pre_prepare", "prepare"
    extracted_materials,    \* the ExtractedMaterials resource: extracted and removed
    frame_reported,         \* extract_material_assets of this frame left a list non-empty
    standard_materials,     \* the StandardMaterials resource: material id -> <<>> or <<StandardMaterial>>
    materials_changed,      \* StandardMaterials was mutably dereferenced since prepare_material_assets last ran
    prepare_has_run,        \* prepare_material_assets has run in a frame before
    material_textures,      \* MaterialRenderAssets.textures
    gpu_materials,          \* the GpuStandardMaterials resource: material id -> <<>> or <<(material, offset)>>
    material_buffer,        \* MaterialRenderAssets.buffer: its data
    material_written        \* prepare_material_assets of this frame called write_buffer

\* The state of the texture cache and of the images taken from it.
target_vars ==
    << texture_cache, textures_created, light_images, prepass_images, written,
       last_size >>

\* The state of the mesh asset systems of mesh.rs.
mesh_vars ==
    << mesh_stage, asset_state, extracted_meshes, local_assets, gpu_meshes,
       render_assets, buffer_written, from_mesh_errors, event_order,
       live_meshes >>

\* The state of queue_prepass_meshes.
queue_vars ==
    << queue_pc, mesh_entities, visible_entities, prepass_items, error_log >>

\* The record of the lighting dispatches of each view.
history_vars == << dispatched_views, last_written >>

\* The state of the material asset systems of material.rs.
material_vars ==
    << material_stage, extracted_materials, frame_reported, standard_materials,
       materials_changed, prepare_has_run, material_textures, gpu_materials,
       material_buffer, material_written >>

\* What the frames of the render sub-graph do not touch.
side_vars == << mesh_vars, queue_vars, history_vars, material_vars >>

\* The state of the frames of the render sub-graph.
render_vars ==
    << stage, todo, graph, counter, frame_number, frame_binding, frame_kernel,
       camera, physical_target_size, prepass_phase, overlay_phase,
       prepass_target, light_pass_target, view_bind_group, light_bind_group, deferred_entries,
       cached_light_pipelines, overlay_bind_group, noise_seen, graph_view,
       overlay_view, trace, light_run, overlay_run, hist_current >>

vars ==
    << stage, todo, graph, counter, frame_number, frame_binding, frame_kernel, camera,
       physical_target_size, prepass_phase, overlay_phase, prepass_target,
       light_pass_target, view_bind_group, light_bind_group, deferred_entries,
       cached_light_pipelines, overlay_bind_group, noise_seen, graph_view,
       overlay_view, trace, light_run, overlay_run, hist_current,
       texture_cache, textures_created, light_images, prepass_images,
       written, last_size, mesh_vars, queue_vars, history_vars, material_vars >>

\* Option<LightBindGroup>
NoLightBindGroup == [some |-> FALSE, current |-> -1, previous |-> -1]
\* the node that has just run is not LightPassNode
LightNotRun ==
    [view |-> 0, ready |-> FALSE, result |-> "none", dispatch |-> <<>>,
     wrote |-> {}]
\* the node that has just run is not OverlayPassNode
OverlayNotRun ==
    [view |-> 0, load |-> "none", item |-> "none", bound |-> <<>>]

\* ---------------------------------------------------- the texture cache
\* The sizes a camera's target takes when it is resized between frames.
ResizedSizes == {<<9, 8>>, <<16, 8>>}

\* TextureFormat constants of light.rs and prepass.rs
RESERVOIR_TEXTURE_FORMAT == "Rgba16Float"
RADIANCE_TEXTURE_FORMAT == "Rgba16Float"
RANDOM_TEXTURE_FORMAT == "Rgba16Float"
POSITION_TEXTURE_FORMAT == "Rgba32Float"
NORMAL_TEXTURE_FORMAT == "Rgba8Snorm"
POSITION_FORMAT == "Rgba32Float"
NORMAL_FORMAT == "Rgba8Snorm"
INSTANCE_MATERIAL_FORMAT == "Rg16Uint"
VELOCITY_UV_FORMAT == "Rgba16Snorm"
SHADOW_FORMAT == "Depth32Float"

TextureFormats ==
    { RESERVOIR_TEXTURE_FORMAT, RADIANCE_TEXTURE_FORMAT, RANDOM_TEXTURE_FORMAT,
      POSITION_TEXTURE_FORMAT, NORMAL_TEXTURE_FORMAT, POSITION_FORMAT,
      NORMAL_FORMAT, INSTANCE_MATERIAL_FORMAT, VELOCITY_UV_FORMAT,
      SHADOW_FORMAT }

\* `texture_usage` of prepare_light_pass_targets and of prepare_prepass_targets
LightTextureUsage == "TEXTURE_BINDING|STORAGE_BINDING"
PrepassTextureUsage == "TEXTURE_BINDING|RENDER_ATTACHMENT"

\* TextureDescriptor, the key of the cache: <<size, format, usage>> (label,
\* mip_level_count, sample_count and dimension are the same in every call).
Descriptors ==
    ResizedSizes \X TextureFormats \X {LightTextureUsage, PrepassTextureUsage}

\* TextureCache::default()
EmptyTextureCache == [d \in Descriptors |-> <<>>]

\* Index of the first texture of a cache entry that is not taken (0: none).
FirstFree(entry) ==
    LET free == {i \in 1..Len(entry) : ~entry[i].taken}
    IN  IF free = {} THEN 0 ELSE CHOOSE i \in free : \A j \in free : i <= j

\* A texture is named by its descriptor and a serial number that no other
\* texture of the descriptor's entry has.
NextSerial(entry) ==
    IF entry = <<>> THEN 1
    ELSE 1 + CHOOSE n \in {entry[i].id[2] : i \in 1..Len(entry)} :
                 \A i \in 1..Len(entry) : entry[i].id[2] <= n

\* TextureCache::get handing out a texture whether or not it is taken.
CacheGet_IgnoreTaken(cache, created, descriptor) ==
    LET entry == cache[descriptor]
    IN  IF entry # <<>>
        THEN [cache |-> cache, created |-> created, texture |-> entry[1]]
        ELSE LET texture == [id |-> <<descriptor, NextSerial(entry)>>,
                             extent |-> descriptor[1],
                             taken |-> TRUE, frames_since_last_use |-> 0]
             IN  [cache |-> [cache EXCEPT ![descriptor] = Append(entry, texture)],
                  created |-> created + 1,
                  texture |-> texture]

\* TextureCache::get: the first texture of the descriptor's entry that is not
\* taken in this frame, marked taken; a new texture when there is none.
CacheGet(cache, created, descriptor) ==
    LET entry == cache[descriptor]
        i == FirstFree(entry)
    IN  IF i # 0
        THEN [cache |-> [cache EXCEPT ![descriptor][i] =
                            [@ EXCEPT !.taken = TRUE, !.frames_since_last_use = 0]],
              created |-> created,
              texture |-> entry[i]]
        ELSE LET texture == [id |-> <<descriptor, NextSerial(entry)>>,
                             extent |-> descriptor[1],
                             taken |-> TRUE, frames_since_last_use |-> 0]
             IN  [cache |-> [cache EXCEPT ![descriptor] = Append(entry, texture)],
                  created |-> created + 1,
                  texture |-> texture]

\* Vec::retain
RECURSIVE Retain(_, _)
Retain(entry, max_frames) ==
    IF entry = <<>> THEN <<>>
    ELSE IF Head(entry).frames_since_last_use < max_frames
         THEN <<Head(entry)>> \o Retain(Tail(entry), max_frames)
         ELSE Retain(Tail(entry), max_frames)

\* Frames a texture stays in the cache without being taken.
CACHE_RETAIN_FRAMES == 3

\* TextureCache::update, run in the cleanup stage of every frame.
CacheUpdate(cache) ==
    [d \in Descriptors |->
        Retain([i \in 1..Len(cache[d]) |->
                   [cache[d][i] EXCEPT !.taken = FALSE,
                                       !.frames_since_last_use = @ + 1]],
               CACHE_RETAIN_FRAMES)]

\* create_texture asking the cache for a texture of one fixed extent.
CreateTexture_FixedExtent(st, size, texture_format, texture_usage) ==
    LET got == CacheGet(st.cache, st.created,
                        <<<<9, 8>>, texture_format, texture_usage>>)
    IN  [cache |-> got.cache,
         created |-> got.created,
         images |-> Append(st.images,
                           [texture |-> got.texture.id,
                            extent |-> got.texture.extent,
                            texture_format |-> texture_format,
                            size |-> size])]

\* create_texture calling render_device.create_texture itself, past the cache.
CreateTexture_Uncached(st, size, texture_format, texture_usage) ==
    [cache |-> st.cache,
     created |-> st.created + 1,
     images |-> Append(st.images,
                       [texture |-> <<<<size, texture_format, texture_usage>>,
                                      -1 - st.created>>,
                        extent |-> size,
                        texture_format |-> texture_format,
                        size |-> size])]

\* The closure create_texture of both prepare systems: a GpuImage around the
\* texture the cache returns for the descriptor, appended to st.images.
CreateTexture(st, size, texture_format, texture_usage) ==
    LET got == CacheGet(st.cache, st.created,
                        <<size, texture_format, texture_usage>>)
    IN  [cache |-> got.cache,
         created |-> got.created,
         images |-> Append(st.images,
                           [texture |-> got.texture.id,
                            extent |-> got.texture.extent,
                            texture_format |-> texture_format,
                            size |-> size])]

\* create_texture for each format of a sequence, in order: the next call is
\* for the format after those of the images made so far.
RECURSIVE CreateTextures(_, _, _, _)
CreateTextures(st, size, formats, texture_usage) ==
    IF Len(st.images) >= Len(formats) THEN st
    ELSE CreateTextures(
             CreateTexture(st, size, formats[Len(st.images) + 1], texture_usage),
             size, formats, texture_usage)

\* The fields of Reservoir in the order the struct literal evaluates them:
\* reservoir, radiance, random, visible_position, visible_normal,
\* sample_position, sample_normal.
ReservoirFormats ==
    << RESERVOIR_TEXTURE_FORMAT, RADIANCE_TEXTURE_FORMAT, RANDOM_TEXTURE_FORMAT,
       POSITION_TEXTURE_FORMAT, NORMAL_TEXTURE_FORMAT,
       POSITION_TEXTURE_FORMAT, NORMAL_TEXTURE_FORMAT >>

\* Number of images in one Reservoir.
RESERVOIR_IMAGES == 7

\* The images of reservoir[id] and the render image in a LightPassTarget's
\* sequence of images: reservoir[0], reservoir[1], render.
ReservoirCopy(images, id) ==
    SubSeq(images, RESERVOIR_IMAGES * id + 1, RESERVOIR_IMAGES * id + RESERVOIR_IMAGES)

RenderImage(images) == images[2 * RESERVOIR_IMAGES + 1]

\* One Reservoir built and cloned into both elements of the array.
ViewLightImages_ClonedCopy(st, size) ==
    LET copy == CreateTextures([st EXCEPT !.images = <<>>], size,
                               ReservoirFormats, LightTextureUsage)
        all == CreateTexture([copy EXCEPT !.images = copy.images \o copy.images],
                             size, RADIANCE_TEXTURE_FORMAT, LightTextureUsage)
    IN  all

\* The loop body of prepare_light_pass_targets for a camera of the given
\* size: `[(); 2].map(|_| Reservoir {...})`, then `render`.
ViewLightImages(st, size) ==
    CreateTextures([st EXCEPT !.images = <<>>], size,
                   ReservoirFormats \o ReservoirFormats \o <<RADIANCE_TEXTURE_FORMAT>>,
                   LightTextureUsage)

\* The loop body of prepare_prepass_targets: position, normal,
\* instance_material, velocity_uv, depth.
ViewPrepassImages(st, size) ==
    CreateTextures([st EXCEPT !.images = <<>>], size,
                   << POSITION_FORMAT, NORMAL_FORMAT, INSTANCE_MATERIAL_FORMAT,
                      VELOCITY_UV_FORMAT, SHADOW_FORMAT >>,
                   PrepassTextureUsage)

\* No view has a target.
NoImages == [v \in Views |-> <<>>]

\* ------------------------------------------------------ the blur kernel
\* The blur kernel of GpuFrame: 25 slots of Vec3(offset.x, offset.y, value).
KERNEL_WIDTH == 5
KERNEL_SLOTS == 25

\* `[Vec3::ZERO; 25]`, which is also GpuFrame::default().kernel.  A weight is
\* the exact quotient <<numerator, denominator>>.
GpuFrameDefaultKernel == [index \in 0..(KERNEL_SLOTS - 1) |-> <<0, 0, <<0, 1>>>>]

Abs(n) == IF n < 0 THEN -n ELSE n

\* The match on (offset.x.abs(), offset.y.abs()) with (1, 2) | (2, 1) => 1 / 32.
KernelValue_HeavyKnight(x, y) ==
    LET a == <<Abs(x), Abs(y)>>
    IN  IF a = <<0, 0>> THEN <<9, 64>>
        ELSE IF a \in {<<0, 1>>, <<1, 0>>} THEN <<3, 32>>
        ELSE IF a = <<1, 1>> THEN <<1, 16>>
        ELSE IF a \in {<<0, 2>>, <<2, 0>>} THEN <<3, 128>>
        ELSE IF a \in {<<1, 2>>, <<2, 1>>} THEN <<1, 32>>
        ELSE IF a = <<2, 2>> THEN <<1, 256>>
        ELSE <<0, 1>>

\* The match with the arms (0, 1) and (1, 0) apart: (1, 0) => 1 / 32.
KernelValue_SplitArms(x, y) ==
    LET a == <<Abs(x), Abs(y)>>
    IN  IF a = <<0, 0>> THEN <<9, 64>>
        ELSE IF a = <<0, 1>> THEN <<3, 32>>
        ELSE IF a = <<1, 0>> THEN <<1, 32>>
        ELSE IF a = <<1, 1>> THEN <<1, 16>>
        ELSE IF a \in {<<0, 2>>, <<2, 0>>} THEN <<3, 128>>
        ELSE IF a \in {<<1, 2>>, <<2, 1>>} THEN <<1, 64>>
        ELSE IF a = <<2, 2>> THEN <<1, 256>>
        ELSE <<0, 1>>

\* `match (offset.x.abs(), offset.y.abs())`: the weight of an offset.
KernelValue(x, y) ==
    LET a == <<Abs(x), Abs(y)>>
    IN  IF a = <<0, 0>> THEN <<9, 64>>
        ELSE IF a \in {<<0, 1>>, <<1, 0>>} THEN <<3, 32>>
        ELSE IF a = <<1, 1>> THEN <<1, 16>>
        ELSE IF a \in {<<0, 2>>, <<2, 0>>} THEN <<3, 128>>
        ELSE IF a \in {<<1, 2>>, <<2, 1>>} THEN <<1, 64>>
        ELSE IF a = <<2, 2>> THEN <<1, 256>>
        ELSE <<0, 1>>

\* The arm `_ => 0.0` is the one taken for the offset.
KernelFallback(x, y) ==
    LET a == <<Abs(x), Abs(y)>>
    IN  a \notin {<<0, 0>>, <<0, 1>>, <<1, 0>>, <<1, 1>>, <<0, 2>>, <<2, 0>>,
                  <<1, 2>>, <<2, 1>>, <<2, 2>>}

\* The body of the loops for one (i, j): the slot written and what is written.
KernelWrite(i, j) ==
    [index |-> i + KERNEL_WIDTH * j,
     offset |-> <<i - 2, j - 2>>,
     value |-> KernelValue(i - 2, j - 2),
     fallback |-> KernelFallback(i - 2, j - 2)]

\* `for i in 0..5 { for j in 0..5 { .. } }`: the writes in program order.
KernelWrites ==
    [n \in 1..(KERNEL_WIDTH * KERNEL_WIDTH) |->
        KernelWrite((n - 1) \div KERNEL_WIDTH, (n - 1) % KERNEL_WIDTH)]

\* kernel[index] = Vec3::new(..) for the writes from the n-th on.
RECURSIVE ApplyKernelWrites(_, _)
ApplyKernelWrites(kernel, n) ==
    IF n > Len(KernelWrites) THEN kernel
    ELSE LET w == KernelWrites[n]
         IN  ApplyKernelWrites(
                 IF w.index \in DOMAIN kernel
                 THEN [kernel EXCEPT ![w.index] =
                          <<w.offset[1], w.offset[2], w.value>>]
                 ELSE kernel,
                 n + 1)

\* The kernel prepare_frame_uniform puts into GpuFrame.
Kernel == ApplyKernelWrites(GpuFrameDefaultKernel, 1)

\* ---------------------------------------------------------- mesh assets
\* AssetId<Mesh> of the meshes of the main world.
MeshIds == {1, 2}
\* Most asset events a frame's EventReader holds.
MaxEvents == 2

\* A Mesh as GpuMesh::from_mesh takes it: a triangle or a quad with the vertex
\* attributes the conversion needs, or a mesh without them.
Meshes == {"complete", "quad", "incomplete"}
\* No entry for the id in Assets<Mesh>, or in the Local map of GpuMesh.
NoMesh == "none"
\* The GpuMesh GpuMesh::from_mesh makes from a Mesh.
GpuMeshOf(mesh) == IF mesh = "quad" THEN "gpu_quad" ELSE "gpu_mesh"

\* The lengths of GpuMesh.vertices, GpuMesh.primitives and GpuMesh.nodes.
VertexCount(gpu_mesh) == IF gpu_mesh = "gpu_quad" THEN 4 ELSE 3
PrimitiveCount(gpu_mesh) == IF gpu_mesh = "gpu_quad" THEN 2 ELSE 1
NodeCount(gpu_mesh) == IF gpu_mesh = "gpu_quad" THEN 3 ELSE 1

\* GpuMesh.vertices, GpuMesh.primitives and GpuMesh.nodes: the i-th element
\* is named by the mesh, the field and i.
Vertices(gpu_mesh) ==
    [i \in 1..VertexCount(gpu_mesh) |-> <<gpu_mesh, "vertex", i>>]
Primitives(gpu_mesh) ==
    [i \in 1..PrimitiveCount(gpu_mesh) |-> <<gpu_mesh, "primitive", i>>]
Nodes(gpu_mesh) ==
    [i \in 1..NodeCount(gpu_mesh) |-> <<gpu_mesh, "node", i>>]

AssetEventKinds == {"Added", "Modified", "Removed", "LoadedWithDependencies"}
AssetEvents == [kind : AssetEventKinds, id : MeshIds]
EventSeqs == UNION {[1..n -> AssetEvents] : n \in 0..MaxEvents}

\* ExtractedMeshes::default()
NoExtractedMeshes == [extracted |-> <<>>, removed |-> <<>>]
\* MeshRenderAssets::default(), and what MeshRenderAssets::clear leaves.
EmptyRenderAssets ==
    [vertex_buffer |-> <<>>, primitive_buffer |-> <<>>, node_buffer |-> <<>>]

\* `changed_assets.remove(id)` left out of the Removed arm.
RECURSIVE ReadEvents_KeepsChanged(_, _, _)
ReadEvents_KeepsChanged(events, changed_assets, removed) ==
    IF events = <<>>
    THEN [changed_assets |-> changed_assets, removed |-> removed]
    ELSE LET event == Head(events)
         IN  IF event.kind \in {"Added", "Modified"}
             THEN ReadEvents_KeepsChanged(Tail(events),
                                          changed_assets \cup {event.id}, removed)
             ELSE IF event.kind = "Removed"
             THEN ReadEvents_KeepsChanged(Tail(events), changed_assets,
                                          Append(removed, event.id))
             ELSE ReadEvents_KeepsChanged(Tail(events), changed_assets, removed)

\* `for event in events.read() { match event { .. } }` of extract_mesh_assets.
RECURSIVE ReadEvents(_, _, _)
ReadEvents(events, changed_assets, removed) ==
    IF events = <<>>
    THEN [changed_assets |-> changed_assets, removed |-> removed]
    ELSE LET event == Head(events)
         IN  IF event.kind \in {"Added", "Modified"}
             THEN ReadEvents(Tail(events), changed_assets \cup {event.id},
                             removed)
             ELSE IF event.kind = "Removed"
             THEN ReadEvents(Tail(events), changed_assets \ {event.id},
                             Append(removed, event.id))
             ELSE ReadEvents(Tail(events), changed_assets, removed)

\* The order of the events of each mesh id in the events of a frame, an
\* Added or Modified counting when Assets<Mesh> holds the mesh at extraction:
\* its latest event, and whether one of the other kind came before it.
RECURSIVE EventOrder(_, _, _)
EventOrder(events, assets, order) ==
    IF events = <<>> THEN order
    ELSE LET event == Head(events)
             before == order[event.id]
         IN  IF event.kind \in {"Added", "Modified"} /\ assets[event.id] # NoMesh
             THEN EventOrder(Tail(events), assets,
                     [order EXCEPT ![event.id] =
                         IF before \in {"none", "added"}
                         THEN "added" ELSE "removed_then_added"])
             ELSE IF event.kind = "Removed"
             THEN EventOrder(Tail(events), assets,
                     [order EXCEPT ![event.id] =
                         IF before \in {"none", "removed"}
                         THEN "removed" ELSE "added_then_removed"])
             ELSE EventOrder(Tail(events), assets, order)

\* The mesh ids whose latest Removed is older than their latest Added or
\* Modified that found the asset, after a frame with the given event orders.
LiveAfter(live, order) ==
    {id \in MeshIds :
        \/ order[id] \in {"added", "removed_then_added"}
        \/ order[id] = "none" /\ id \in live}

\* The orders in which HashSet::drain can yield the ids of a set.
DrainOrders(ids) ==
    {order \in [1..Cardinality(ids) -> ids] :
        \A i, j \in 1..Cardinality(ids) : i # j => order[i] # order[j]}

\* extract_mesh_assets setting Dirty on changes and leaving the state otherwise.
StateAfterExtract_OnlyDirties(extracted, removed) ==
    IF extracted # <<>> \/ removed # <<>> THEN "Dirty" ELSE asset_state

\* The state extract_mesh_assets sets, looking at the extracted list only.
StateAfterExtract_ExtractedOnly(extracted, removed) ==
    IF extracted # <<>> THEN "Dirty" ELSE "Clean"

\* `*state = if !extracted.is_empty() || !removed.is_empty() { Dirty } else { Clean }`
StateAfterExtract(extracted, removed) ==
    IF extracted # <<>> \/ removed # <<>> THEN "Dirty" ELSE "Clean"

\* GpuMesh::from_mesh(mesh): Ok(GpuMesh) or Err.
FromMesh(mesh) ==
    IF mesh \in {"complete", "quad"}
    THEN [ok |-> TRUE, gpu_mesh |-> GpuMeshOf(mesh)]
    ELSE [ok |-> FALSE, gpu_mesh |-> NoMesh]

\* The elements of a sequence.
Elements(seq) == {seq[i] : i \in 1..Len(seq)}

\* `for (handle, mesh) in extracted.drain(..) { assets.insert(handle,
\* GpuMesh::from_mesh(mesh).unwrap()); }`: the map when the loop ends or
\* unwrap panics, and the ids whose conversion returned Err.
RECURSIVE InsertExtracted(_, _)
InsertExtracted(assets, extracted) ==
    IF extracted = <<>> THEN [assets |-> assets, errors |-> {}]
    ELSE LET handle == Head(extracted)[1]
             converted == FromMesh(Head(extracted)[2])
         IN  IF ~converted.ok
             THEN [assets |-> assets, errors |-> {handle}]
             ELSE InsertExtracted(
                      [assets EXCEPT ![handle] = converted.gpu_mesh],
                      Tail(extracted))

\* The greatest mesh id: BTreeMap::iter goes up to it in ascending order.
LastMeshId == CHOOSE id \in MeshIds : \A other \in MeshIds : other <= id

\* The rebuild with every slice starting where the mesh before it started.
RECURSIVE RebuildFrom_StaleOffsets(_, _, _, _)
RebuildFrom_StaleOffsets(assets, handle, buffers, meshes) ==
    IF handle > LastMeshId THEN [render_assets |-> buffers, meshes |-> meshes]
    ELSE IF handle \notin MeshIds \/ assets[handle] = NoMesh
    THEN RebuildFrom_StaleOffsets(assets, handle + 1, buffers, meshes)
    ELSE LET slice == [vertex |-> 0,
                       primitive |-> 0,
                       node_offset |-> 0,
                       node_len |-> Len(Nodes(assets[handle]))]
         IN  RebuildFrom_StaleOffsets(
                 assets, handle + 1,
                 [vertex_buffer |->
                      buffers.vertex_buffer \o Vertices(assets[handle]),
                  primitive_buffer |->
                      buffers.primitive_buffer \o Primitives(assets[handle]),
                  node_buffer |->
                      buffers.node_buffer \o Nodes(assets[handle])],
                 [meshes EXCEPT ![handle] =
                     <<[mesh |-> assets[handle], slice |-> slice]>>])

\* `for (handle, mesh) in assets.iter() { .. }` from the handle `handle` on:
\* append the mesh to the three buffers and insert it with its slice.
RECURSIVE RebuildFrom(_, _, _, _)
RebuildFrom(assets, handle, buffers, meshes) ==
    IF handle > LastMeshId THEN [render_assets |-> buffers, meshes |-> meshes]
    ELSE IF handle \notin MeshIds \/ assets[handle] = NoMesh
    THEN RebuildFrom(assets, handle + 1, buffers, meshes)
    ELSE LET slice == [vertex |-> Len(buffers.vertex_buffer),
                       primitive |-> Len(buffers.primitive_buffer),
                       node_offset |-> Len(buffers.node_buffer),
                       node_len |-> Len(Nodes(assets[handle]))]
         IN  RebuildFrom(
                 assets, handle + 1,
                 [vertex_buffer |->
                      buffers.vertex_buffer \o Vertices(assets[handle]),
                  primitive_buffer |->
                      buffers.primitive_buffer \o Primitives(assets[handle]),
                  node_buffer |->
                      buffers.node_buffer \o Nodes(assets[handle])],
                 [meshes EXCEPT ![handle] =
                     <<[mesh |-> assets[handle], slice |-> slice]>>])

\* ------------------------------------------------- prepass phase items
NumEntities == 2
Entities == 1..NumEntities

\* What queue_prepass_meshes finds for a visible entity:
\*   "no_mesh"     the entity is not in the query `meshes`
\*   "unloaded"    render_meshes.get(mesh_handle) is None
\*   "complete"    the mesh's layout has position, normal and uv
\*   "incomplete"  the mesh's layout lacks one of them
EntityMeshes == {"no_mesh", "unloaded", "complete", "incomplete"}

\* specialize taking any vertex layout.
Specialize_AnyLayout(mesh) == [ok |-> TRUE]

\* PrepassPipeline::specialize through SpecializedMeshPipelines::specialize:
\* layout.get_layout(&vertex_attributes)? fails on a missing attribute.
Specialize(mesh) == [ok |-> mesh = "complete"]

\* The closure add_render_phase for one entity of the query, on the items of
\* the view's phase and the error log.
AddRenderPhase(st, entity, mesh) ==
    IF mesh = "unloaded" THEN st
    ELSE IF ~Specialize(mesh).ok
    THEN [items |-> st.items, log |-> Append(st.log, entity)]
    ELSE [items |-> Append(st.items, entity), log |-> st.log]

\* visible_entities.entities.iter().filter_map(meshes.get).for_each(
\* add_render_phase), from the entity `entity` on.
RECURSIVE ForEachVisible(_, _, _, _)
ForEachVisible(st, entity, visible, meshes) ==
    IF entity > NumEntities THEN st
    ELSE IF entity \notin visible \/ meshes[entity] = "no_mesh"
    THEN ForEachVisible(st, entity + 1, visible, meshes)
    ELSE ForEachVisible(AddRenderPhase(st, entity, meshes[entity]),
                        entity + 1, visible, meshes)

\* `for (view, visible_entities, mut prepass_phase) in &mut views`, from view
\* v on.  visible[v] is <<>> for a view that is not in the query.
RECURSIVE ForEachView(_, _, _, _)
ForEachView(acc, v, visible, meshes) ==
    IF v > NumViews THEN acc
    ELSE IF visible[v] = <<>> THEN ForEachView(acc, v + 1, visible, meshes)
    ELSE LET done == ForEachVisible([items |-> acc.phases[v], log |-> acc.log],
                                    1, visible[v][1], meshes)
         IN  ForEachView([phases |-> [acc.phases EXCEPT ![v] = done.items],
                          log |-> done.log],
                         v + 1, visible, meshes)

\* ------------------------------------------------ the counter's width
\* FrameCounter.0 is a usize: four 16-bit limbs, the least significant first.
LIMB == 65536
LimbsZero == <<0, 0, 0, 0>>

\* `counter.0 as u32` as a saturating cast.
AsU32Limbs_Saturating(c) ==
    IF c[3] # 0 \/ c[4] # 0 THEN <<LIMB - 1, LIMB - 1>> ELSE <<c[1], c[2]>>

\* `counter.0 as u32`: the two low limbs.
AsU32Limbs(c) == <<c[1], c[2]>>

\* `counter.0 += 1`, with the carries.
IncrementLimbs(c) ==
    IF c[1] + 1 < LIMB THEN <<c[1] + 1, c[2], c[3], c[4]>>
    ELSE IF c[2] + 1 < LIMB THEN <<0, c[2] + 1, c[3], c[4]>>
    ELSE IF c[3] + 1 < LIMB THEN <<0, 0, c[3] + 1, c[4]>>
    ELSE <<0, 0, 0, (c[4] + 1) % LIMB>>

\* Values of the counter some frames before it passes a multiple of 2^16,
\* 2^32 or 2^48.
LimbsBeforeCarry ==
    {<<LIMB - 3, l2, l3, l4>> : l2 \in {0, LIMB - 1}, l3 \in {0, LIMB - 1},
                                l4 \in {0, 1}}

\* ------------------------------------------------------ material assets
\* AssetId<StandardMaterial> of the materials of the main world.
MaterialIds == {1, 2}
\* Handle<Image> of the textures materials refer to, in their order.
NumTextures == 2
TextureHandles == 1..NumTextures
\* Option<Handle<Image>>: None
NoTexture == 0

\* A StandardMaterial: its base colour and its five optional textures.
Material(color, base, emissive, metallic_roughness, normal_map, occlusion) ==
    [base_color |-> color,
     base_color_texture |-> base,
     emissive_texture |-> emissive,
     metallic_roughness_texture |-> metallic_roughness,
     normal_map_texture |-> normal_map,
     occlusion_texture |-> occlusion]

\* The StandardMaterials Assets<StandardMaterial> holds at one time or other.
Materials ==
    {Material("white", NoTexture, NoTexture, NoTexture, NoTexture, NoTexture),
     Material("red", 1, NoTexture, NoTexture, NoTexture, NoTexture),
     Material("green", 2, 1, NoTexture, NoTexture, NoTexture),
     Material("blue", NoTexture, NoTexture, 2, 1, 2)}

MaterialEvents == [kind : AssetEventKinds, id : MaterialIds]
MaterialEventSeqs == UNION {[1..n -> MaterialEvents] : n \in 0..MaxEvents}

\* ExtractedMaterials::default()
NoExtractedMaterials == [extracted |-> <<>>, removed |-> <<>>]

\* u32::MAX, and `id as u32` of an index: two 16-bit limbs, the least
\* significant first.
U32_MAX == <<LIMB - 1, LIMB - 1>>
IndexAsU32(id) == <<id % LIMB, (id \div LIMB) % LIMB>>

\* textures.binary_search(handle) on the sorted Vec of the BTreeSet: Ok(id)
\* with the position of the handle, or Err(id) with the position at which it
\* would be inserted; either way the number of smaller handles.
BinarySearch(textures, handle) ==
    [ok |-> handle \in textures,
     id |-> Cardinality({texture \in textures : texture < handle})]

\* The closure texture_id of prepare_material_assets:
\* `match textures.binary_search(handle) { Ok(id) | Err(id) => id as u32 }`,
\* u32::MAX for None.
TextureId(textures, handle) ==
    IF handle # NoTexture
    THEN IndexAsU32(BinarySearch(textures, handle).id)
    ELSE U32_MAX

\* The GpuStandardMaterial built in the closure of `map`.
GpuMaterialOf(textures, material) ==
    [base_color |-> material.base_color,
     base_color_texture |-> TextureId(textures, material.base_color_texture),
     emissive_texture |-> TextureId(textures, material.emissive_texture),
     metallic_roughness_texture |->
         TextureId(textures, material.metallic_roughness_texture),
     normal_map_texture |-> TextureId(textures, material.normal_map_texture),
     occlusion_texture |-> TextureId(textures, material.occlusion_texture)]

\* The greatest material id: BTreeMap::iter goes up to it in ascending order.
LastMaterialId ==
    CHOOSE id \in MaterialIds : \A other \in MaterialIds : other <= id

\* `for id in removed.drain(..) { materials.remove(&id); }`
RemoveMaterials(materials, removed) ==
    [id \in MaterialIds |->
        IF id \in Elements(removed) THEN <<>> ELSE materials[id]]

\* `for (id, material) in extracted.drain(..) { .. }` of
\* prepare_generic_material_assets: the base colour texture goes into
\* MaterialRenderAssets.textures, the material into StandardMaterials.
RECURSIVE InsertMaterials(_, _, _)
InsertMaterials(materials, textures, extracted) ==
    IF extracted = <<>> THEN [materials |-> materials, textures |-> textures]
    ELSE LET id == Head(extracted)[1]
             material == Head(extracted)[2]
         IN  InsertMaterials(
                 [materials EXCEPT ![id] = <<material>>],
                 IF material.base_color_texture # NoTexture
                 THEN textures \cup {material.base_color_texture}
                 ELSE textures,
                 Tail(extracted))

\* StandardMaterials marked as changed whatever the lists hold.
MarksChanged_Always(extracted, removed) == TRUE

\* Whether prepare_generic_material_assets dereferences ResMut<StandardMaterials>
\* mutably: once for every element of either list.
MarksChanged(extracted, removed) == extracted # <<>> \/ removed # <<>>

\* `materials.is_changed()` in prepare_material_assets: StandardMaterials was
\* added or mutably dereferenced since the system last ran, or the system
\* has never run.
IsChanged == ~prepare_has_run \/ materials_changed

\* GpuStandardMaterials left as it is instead of `assets.clear()`.
ClearedGpuMaterials_Kept == gpu_materials

\* `assets.clear()`
ClearedGpuMaterials == [id \in MaterialIds |-> <<>>]

\* `materials.iter().enumerate().map(..).collect()` from the id `handle` on,
\* `offset` being the count of enumerate: the GPU material goes into
\* GpuStandardMaterials with its offset and to the end of the collected Vec.
RECURSIVE CollectMaterials(_, _, _, _, _, _)
CollectMaterials(materials, textures, handle, offset, assets, data) ==
    IF handle > LastMaterialId THEN [assets |-> assets, data |-> data]
    ELSE IF handle \notin MaterialIds \/ materials[handle] = <<>>
    THEN CollectMaterials(materials, textures, handle + 1, offset, assets, data)
    ELSE LET material == GpuMaterialOf(textures, materials[handle][1])
         IN  CollectMaterials(
                 materials, textures, handle + 1, offset + 1,
                 [assets EXCEPT ![handle] =
                     <<[material |-> material, offset |-> IndexAsU32(offset)]>>],
                 Append(data, material))

\* ------------------------------------------------------- the schedule
\* The systems each plugin adds to a stage of the render sub-app.
StageSystems(st) ==
    CASE st = "extract" ->
            {"extract_prepass_camera_phases", "extract_overlay_camera_phases"}
      [] st = "prepare" ->
            {"prepare_prepass_targets", "prepare_light_pass_targets",
             "prepare_frame_uniform"}
      [] st = "queue" ->
            {"queue_view_bind_groups", "queue_light_bind_groups",
             "queue_light_pipelines", "queue_overlay_mesh",
             "prepare_overlay_bind_group"}
      [] OTHER -> {}

\* RenderStage: Extract, Prepare, Queue, (PhaseSort,) Render, Cleanup
NextStage(st) ==
    CASE st = "begin" -> "extract"
      [] st = "extract" -> "prepare"
      [] st = "prepare" -> "queue"
      [] st = "queue" -> "render"
      [] OTHER -> "begin"

\* System s of the current stage has run; the stage ends with its last system.
SystemDone(s) ==
    IF todo = {s}
    THEN /\ stage' = NextStage(stage)
         /\ todo' = StageSystems(NextStage(stage))
    ELSE /\ stage' = stage
         /\ todo' = todo \ {s}

\* The state of the per-frame entities after the render world was cleared.
NoEntities ==
    /\ camera = [v \in Views |-> "none"]
    /\ physical_target_size = [v \in Views |-> NoSize]
    /\ prepass_phase = [v \in Views |-> FALSE]
    /\ overlay_phase = [v \in Views |-> -1]
    /\ prepass_target = [v \in Views |-> FALSE]
    /\ light_pass_target = [v \in Views |-> FALSE]
    /\ view_bind_group = [v \in Views |-> FALSE]
    /\ light_bind_group = [v \in Views |-> NoLightBindGroup]
    /\ deferred_entries = [v \in Views |-> <<>>]
    /\ graph_view = 0
    /\ overlay_view = 0
    /\ trace = <<>>
    /\ light_run = LightNotRun
    /\ overlay_run = OverlayNotRun
    /\ noise_seen = "unset"

\* World::clear_entities at the end of the frame.
ClearEntities ==
    /\ camera' = [v \in Views |-> "none"]
    /\ physical_target_size' = [v \in Views |-> NoSize]
    /\ prepass_phase' = [v \in Views |-> FALSE]
    /\ overlay_phase' = [v \in Views |-> -1]
    /\ prepass_target' = [v \in Views |-> FALSE]
    /\ light_pass_target' = [v \in Views |-> FALSE]
    /\ view_bind_group' = [v \in Views |-> FALSE]
    /\ light_bind_group' = [v \in Views |-> NoLightBindGroup]
    /\ deferred_entries' = [v \in Views |-> <<>>]
    /\ graph_view' = 0
    /\ overlay_view' = 0
    /\ trace' = <<>>
    /\ light_run' = LightNotRun
    /\ overlay_run' = OverlayNotRun
    /\ noise_seen' = "unset"

\* The plugins are built: resources initialised with Default, the graph added.
InitResources ==
    /\ stage = "begin"
    /\ todo = {}
    /\ graph = BuildGraph
    /\ mesh_stage = "extract"
    /\ asset_state = "Clean"
    /\ extracted_meshes = NoExtractedMeshes
    /\ local_assets = [id \in MeshIds |-> NoMesh]
    /\ gpu_meshes = [id \in MeshIds |-> <<>>]
    /\ render_assets = EmptyRenderAssets
    /\ buffer_written = FALSE
    /\ from_mesh_errors = {}
    /\ event_order = [id \in MeshIds |-> "none"]
    /\ live_meshes = {}
    /\ queue_pc = "input"
    /\ mesh_entities = [e \in Entities |-> "no_mesh"]
    /\ visible_entities = [v \in Views |-> {}]
    /\ prepass_items = [v \in Views |-> <<>>]
    /\ error_log = <<>>
    /\ dispatched_views = {}
    /\ last_written = [v \in Views |-> -1]
    /\ material_stage = "extract"
    /\ extracted_materials = NoExtractedMaterials
    /\ frame_reported = FALSE
    /\ standard_materials = [id \in MaterialIds |-> <<>>]
    /\ materials_changed = FALSE
    /\ prepare_has_run = FALSE
    /\ material_textures = {}
    /\ gpu_materials = [id \in MaterialIds |-> <<>>]
    /\ material_buffer = <<>>
    /\ material_written = FALSE
    /\ cached_light_pipelines = FALSE
    /\ overlay_bind_group = <<>>
    /\ hist_current = -1
    /\ texture_cache = EmptyTextureCache
    /\ textures_created = 0
    /\ light_images = NoImages
    /\ prepass_images = NoImages
    /\ written = {}
    /\ last_size = [v \in Views |-> NoSize]
    /\ NoEntities

\* FrameCounter and FrameUniform start as their Default.
Init ==
    /\ counter = 0
    /\ frame_number = 0
    /\ frame_binding = FALSE
    /\ frame_kernel = GpuFrameDefaultKernel
    /\ InitResources

\* What a frame leaves alone unless the action says otherwise.
RenderUnchanged ==
    UNCHANGED << graph_view, overlay_view, trace, light_run, overlay_run,
                 target_vars, side_vars >>

\* ------------------------------------------------------ extract stage
\* The host extracts the cameras of the main world into the cleared render
\* world: every view entity gets an ExtractedCamera or none.
BeginFrame ==
    /\ stage = "begin"
    /\ counter < MaxFrames
    /\ \E kinds \in [Views -> CameraKinds] :
       \E sizes \in [Views -> {NoSize} \cup Sizes] :
          /\ \A v \in Views : kinds[v] = "none" => sizes[v] = NoSize
          /\ camera' = kinds
          /\ physical_target_size' = sizes
    /\ stage' = "extract"
    /\ todo' = StageSystems("extract")
    /\ UNCHANGED << graph, counter, frame_number, frame_binding, frame_kernel, prepass_phase,
                    overlay_phase, prepass_target, light_pass_target,
                    view_bind_group, light_bind_group, deferred_entries, cached_light_pipelines,
                    overlay_bind_group, noise_seen, hist_current >>
    /\ RenderUnchanged

\* extract_prepass_camera_phases: a RenderPhase<Prepass> for every active 3D camera.
ExtractPrepassCameraPhases ==
    /\ "extract_prepass_camera_phases" \in todo
    /\ prepass_phase' = [v \in Views |-> camera[v] = "active3d"]
    /\ SystemDone("extract_prepass_camera_phases")
    /\ UNCHANGED << graph, counter, frame_number, frame_binding, frame_kernel, camera,
                    physical_target_size, overlay_phase, prepass_target,
                    light_pass_target, view_bind_group, light_bind_group, deferred_entries,
                    cached_light_pipelines, overlay_bind_group, noise_seen,
                    hist_current >>
    /\ RenderUnchanged

\* extract_overlay_camera_phases: a RenderPhase<Overlay> for every active 3D camera.
ExtractOverlayCameraPhases ==
    /\ "extract_overlay_camera_phases" \in todo
    /\ overlay_phase' = [v \in Views |-> IF camera[v] = "active3d" THEN 0 ELSE -1]
    /\ SystemDone("extract_overlay_camera_phases")
    /\ UNCHANGED << graph, counter, frame_number, frame_binding, frame_kernel, camera,
                    physical_target_size, prepass_phase, prepass_target,
                    light_pass_target, view_bind_group, light_bind_group, deferred_entries,
                    cached_light_pipelines, overlay_bind_group, noise_seen,
                    hist_current >>
    /\ RenderUnchanged

\* ------------------------------------------------------ prepare stage
\* prepare_prepass_targets: cameras With<RenderPhase<Prepass>> that have a size.
PreparePrepassTargets ==
    /\ "prepare_prepass_targets" \in todo
    /\ prepass_target' =
          [v \in Views |-> /\ camera[v] # "none"
                           /\ prepass_phase[v]
                           /\ physical_target_size[v] # NoSize]
    /\ SystemDone("prepare_prepass_targets")
    /\ UNCHANGED << graph, counter, frame_number, frame_binding, frame_kernel, camera,
                    physical_target_size, prepass_phase, overlay_phase,
                    light_pass_target, view_bind_group, light_bind_group, deferred_entries,
                    cached_light_pipelines, overlay_bind_group, noise_seen,
                    hist_current >>
    /\ RenderUnchanged

\* prepare_light_pass_targets: every camera that has a size.
PrepareLightPassTargets ==
    /\ "prepare_light_pass_targets" \in todo
    /\ light_pass_target' =
          [v \in Views |-> /\ camera[v] # "none"
                           /\ physical_target_size[v] # NoSize]
    /\ SystemDone("prepare_light_pass_targets")
    /\ UNCHANGED << graph, counter, frame_number, frame_binding, frame_kernel, camera,
                    physical_target_size, prepass_phase, overlay_phase,
                    prepass_target, view_bind_group, light_bind_group, deferred_entries,
                    cached_light_pipelines, overlay_bind_group, noise_seen,
                    hist_current >>
    /\ RenderUnchanged

\* `counter.0 as u32`: the low 32 bits, taken as two 16-bit halves
AsU32(n) == (n % 65536) + 65536 * ((n \div 65536) % 65536)

\* `counter.0 += 1` forgotten
IncrementCounter_Forgotten(c) == c

\* `counter.0 += 1`
IncrementCounter(c) == c + 1

\* prepare_frame_uniform: write the counter as GpuFrame.number, then count on.
PrepareFrameUniform ==
    /\ "prepare_frame_uniform" \in todo
    /\ frame_number' = AsU32(counter)
    /\ frame_kernel' = Kernel
    /\ frame_binding' = TRUE
    /\ counter' = IncrementCounter(counter)
    /\ SystemDone("prepare_frame_uniform")
    /\ UNCHANGED << graph, camera, physical_target_size, prepass_phase,
                    overlay_phase, prepass_target, light_pass_target,
                    view_bind_group, light_bind_group, deferred_entries, cached_light_pipelines,
                    overlay_bind_group, noise_seen, hist_current >>
    /\ RenderUnchanged

\* -------------------------------------------------------- queue stage
\* queue_view_bind_groups: when the three uniform bindings exist, a
\* ViewBindGroup for every view with ViewShadowBindings and
\* ViewClusterBindings (the host's light preparation inserts them on the
\* extracted views).
QueueViewBindGroups ==
    /\ "queue_view_bind_groups" \in todo
    /\ \E bindings \in BOOLEAN :
          view_bind_group' = [v \in Views |-> bindings /\ camera[v] # "none"]
    /\ SystemDone("queue_view_bind_groups")
    /\ UNCHANGED << graph, counter, frame_number, frame_binding, frame_kernel, camera,
                    physical_target_size, prepass_phase, overlay_phase,
                    prepass_target, light_pass_target, light_bind_group, deferred_entries,
                    cached_light_pipelines, overlay_bind_group, noise_seen,
                    hist_current >>
    /\ RenderUnchanged

\* The handles of NoiseTexture, in the order noise_texture.iter() yields them.
NoiseHandles == 1..NumNoiseTextures

\* `let current_id = counter.0 % 2` taken one frame early
CurrentId_OffByOne(c) == (c + 1) % 2

\* `let current_id = counter.0 % 2`
CurrentId(c) == c % 2

\* `&light_pass.reservoir[current_id]` bound as the previous copy too
PreviousId_Same(current_id) == current_id

\* `&light_pass.reservoir[1 - current_id]`
PreviousId(current_id) == 1 - current_id

\* The LightBindGroup built in the loop body: bindings 1-7 of `render` are
\* the current copy, bindings 8-9 the previous copy.
NewLightBindGroup ==
    [some |-> TRUE,
     current |-> CurrentId(counter),
     previous |-> PreviousId(CurrentId(counter))]

\* The `deferred` bind group built in the loop body for a view: bindings 0, 2,
\* 4 and 6 are the texture views of four images of the PrepassTarget of the
\* query item (bindings 1, 3 and 5 are their samplers); an image is named by
\* the view that owns the target and the field of PrepassTarget.
DeferredEntries_Depth(v) ==
    << <<v, "position">>, <<v, "normal">>, <<v, "velocity_uv">>, <<v, "depth">> >>

DeferredEntries(v) ==
    << <<v, "position">>, <<v, "normal">>, <<v, "velocity_uv">>,
       <<v, "instance_material">> >>

\* The `deferred` bind groups after the per-view loop.
DeferredLoop ==
    [v \in Views |->
        IF prepass_target[v] /\ light_pass_target[v] /\ frame_binding
        THEN DeferredEntries(v)
        ELSE deferred_entries[v]]

\* The `deferred` bind groups after queue_light_bind_groups.
QueuedDeferredEntries(loaded) ==
    IF \E h \in NoiseHandles : h \notin loaded
    THEN deferred_entries
    ELSE DeferredLoop

\* The per-view loop of queue_light_bind_groups.
LightBindGroupLoop ==
    [v \in Views |->
        IF prepass_target[v] /\ light_pass_target[v] /\ frame_binding
        THEN NewLightBindGroup
        ELSE light_bind_group[v]]

\* A missing noise image skipped (`continue`) instead of `return`.
QueuedLightBindGroups_NoReturn(loaded) == LightBindGroupLoop

\* queue_light_bind_groups, given the noise images RenderAssets<Image> holds:
\* the first handle without an image returns before the per-view loop.
QueuedLightBindGroups(loaded) ==
    IF \E h \in NoiseHandles : h \notin loaded
    THEN light_bind_group
    ELSE LightBindGroupLoop

QueueLightBindGroups ==
    /\ "queue_light_bind_groups" \in todo
    /\ \E loaded \in SUBSET NoiseHandles :
          /\ noise_seen' = IF NoiseHandles \subseteq loaded THEN "ready" ELSE "missing"
          /\ light_bind_group' = QueuedLightBindGroups(loaded)
          /\ deferred_entries' = QueuedDeferredEntries(loaded)
    /\ SystemDone("queue_light_bind_groups")
    /\ UNCHANGED << graph, counter, frame_number, frame_binding, frame_kernel, camera,
                    physical_target_size, prepass_phase, overlay_phase,
                    prepass_target, light_pass_target, view_bind_group,
                    cached_light_pipelines, overlay_bind_group, hist_current >>
    /\ RenderUnchanged

\* queue_light_pipelines: specialize "direct_lit", insert CachedLightPipelines.
QueueLightPipelines ==
    /\ "queue_light_pipelines" \in todo
    /\ cached_light_pipelines' = TRUE
    /\ SystemDone("queue_light_pipelines")
    /\ UNCHANGED << graph, counter, frame_number, frame_binding, frame_kernel, camera,
                    physical_target_size, prepass_phase, overlay_phase,
                    prepass_target, light_pass_target, view_bind_group,
                    light_bind_group, deferred_entries, overlay_bind_group, noise_seen,
                    hist_current >>
    /\ RenderUnchanged

\* queue_overlay_mesh: one Overlay item per RenderPhase<Overlay> when the quad
\* mesh is a render asset and its pipeline specializes; an error returns.
QueueOverlayMesh ==
    /\ "queue_overlay_mesh" \in todo
    /\ \E quad_loaded \in BOOLEAN, specialized \in BOOLEAN :
          overlay_phase' =
             [v \in Views |->
                 IF overlay_phase[v] >= 0 /\ quad_loaded /\ specialized
                 THEN overlay_phase[v] + 1
                 ELSE overlay_phase[v]]
    /\ SystemDone("queue_overlay_mesh")
    /\ UNCHANGED << graph, counter, frame_number, frame_binding, frame_kernel, camera,
                    physical_target_size, prepass_phase, prepass_target,
                    light_pass_target, view_bind_group, light_bind_group, deferred_entries,
                    cached_light_pipelines, overlay_bind_group, noise_seen,
                    hist_current >>
    /\ RenderUnchanged

\* prepare_overlay_bind_group: every view with a LightPassTarget overwrites the
\* one OverlayBindGroup resource; the view the query yields last stays.
PrepareOverlayBindGroup ==
    /\ "prepare_overlay_bind_group" \in todo
    /\ LET targets == {v \in Views : light_pass_target[v]}
       IN  IF targets = {}
           THEN overlay_bind_group' = overlay_bind_group
           ELSE \E last \in targets : overlay_bind_group' = <<last>>
    /\ SystemDone("prepare_overlay_bind_group")
    /\ UNCHANGED << graph, counter, frame_number, frame_binding, frame_kernel, camera,
                    physical_target_size, prepass_phase, overlay_phase,
                    prepass_target, light_pass_target, view_bind_group,
                    light_bind_group, deferred_entries, cached_light_pipelines, noise_seen,
                    hist_current >>
    /\ RenderUnchanged

\* ------------------------------------------------------- render stage
Range(seq) == {seq[i] : i \in 1..Len(seq)}

\* Position of node n in a trace (0 when it has not run).
Pos(seq, n) ==
    IF n \in Range(seq) THEN CHOOSE i \in 1..Len(seq) : seq[i] = n ELSE 0

\* A sub-graph run has begun and has nodes left to run.
Running ==
    /\ graph_view # 0
    /\ ~(graph.nodes \subseteq Range(trace))

\* The graph runner takes a node of the run only when every node with an edge
\* (slot edge or node edge) into it has finished.
CanRun(n) ==
    /\ stage = "render"
    /\ graph_view # 0
    /\ n \in graph.nodes
    /\ n \notin Range(trace)
    /\ \A e \in graph.slot_edges \cup graph.node_edges :
          e[2] = n => e[1] \in Range(trace)

FrameUnchanged ==
    UNCHANGED << todo, graph, counter, frame_number, frame_binding, frame_kernel, camera,
                 physical_target_size, prepass_phase, overlay_phase,
                 prepass_target, light_pass_target, view_bind_group,
                 light_bind_group, deferred_entries, cached_light_pipelines, overlay_bind_group,
                 noise_seen, hist_current, target_vars, side_vars >>

\* The host runs the sub-graph for view entity v, at most once a frame and
\* walking the views in their order; one run is drained before the next
\* begins.
RunSubGraph(v) ==
    /\ stage = "render"
    /\ ~Running
    /\ v > graph_view
    /\ graph_view' = v
    /\ trace' = <<>>
    /\ light_run' = LightNotRun
    /\ overlay_run' = OverlayNotRun
    /\ UNCHANGED << stage, overlay_view >>
    /\ FrameUnchanged

\* The input node of the sub-graph passes the view entity on.
RunInputNode ==
    /\ CanRun(INPUT_NODE)
    /\ trace' = Append(trace, INPUT_NODE)
    /\ light_run' = LightNotRun
    /\ overlay_run' = OverlayNotRun
    /\ UNCHANGED << stage, graph_view, overlay_view >>
    /\ FrameUnchanged

\* PrepassNode::run: draws the Prepass phase into the view's PrepassTarget, or
\* returns Ok(()) when the view does not match its query.
RunPrepassNode ==
    /\ CanRun(PREPASS)
    /\ trace' = Append(trace, PREPASS)
    /\ light_run' = LightNotRun
    /\ overlay_run' = OverlayNotRun
    /\ UNCHANGED << stage, graph_view, overlay_view >>
    /\ FrameUnchanged

\* The host's nodes of the sub-graph.
HostNodes == {MAIN_PASS, TONEMAPPING, END_MAIN_PASS_POST_PROCESSING, UPSCALING}

RunHostNode(n) ==
    /\ n \in HostNodes
    /\ CanRun(n)
    /\ trace' = Append(trace, n)
    /\ light_run' = LightNotRun
    /\ overlay_run' = OverlayNotRun
    /\ UNCHANGED << stage, graph_view, overlay_view >>
    /\ FrameUnchanged

\* `size / WORKGROUP_SIZE`, per component
WorkgroupCount_Floor(size) ==
    << size[1] \div WORKGROUP_SIZE, size[2] \div WORKGROUP_SIZE, 1 >>

\* `(size + WORKGROUP_SIZE - 1) / WORKGROUP_SIZE`, per component
WorkgroupCount(size) ==
    << (size[1] + WORKGROUP_SIZE - 1) \div WORKGROUP_SIZE,
       (size[2] + WORKGROUP_SIZE - 1) \div WORKGROUP_SIZE,
       1 >>

\* `world.resource::<MeshMaterialBindGroup>()` in place of get_resource, and
\* the dispatch issued whether or not the pipeline is compiled.
LightPassOutcome_Eager(query_ok, mesh_material, cached, compiled, size) ==
    IF ~query_ok THEN [result |-> "ok", dispatch |-> <<>>]
    ELSE IF ~mesh_material THEN [result |-> "panic", dispatch |-> <<>>]
    ELSE IF size = NoSize THEN [result |-> "panic", dispatch |-> <<>>]
    ELSE [result |-> "ok", dispatch |-> WorkgroupCount(size)]

\* The body of LightPassNode::run: what it returns and what it dispatches.
LightPassOutcome(query_ok, mesh_material, cached, compiled, size) ==
    IF ~query_ok THEN [result |-> "ok", dispatch |-> <<>>]
    ELSE IF ~mesh_material THEN [result |-> "ok", dispatch |-> <<>>]
    ELSE IF ~cached THEN [result |-> "panic", dispatch |-> <<>>]
    ELSE IF ~compiled THEN [result |-> "ok", dispatch |-> <<>>]
    ELSE IF size = NoSize THEN [result |-> "panic", dispatch |-> <<>>]
    ELSE [result |-> "ok", dispatch |-> WorkgroupCount(size)]

\* The images of a LightPassTarget that bind group `render` binds for writing:
\* binding 0 and the current copy at bindings 1-7.
ReservoirImage(id) == IF id = 0 THEN "reservoir0" ELSE "reservoir1"

\* LightPassNode::run for the view of the run.  The view's ViewUniformOffset
\* and ViewLightsUniformOffset (host components), the MeshMaterialBindGroup
\* resource and the compiled pipeline are there or not.
RunLightPassNode ==
    /\ CanRun(LIGHT_DIRECT_PASS)
    /\ \E view_uniform \in BOOLEAN, view_lights \in BOOLEAN,
          mesh_material \in BOOLEAN, compiled \in BOOLEAN :
          LET v == graph_view
              query_ok == /\ camera[v] # "none"
                          /\ view_uniform
                          /\ view_lights
                          /\ view_bind_group[v]
                          /\ light_bind_group[v].some
              out == LightPassOutcome(query_ok, mesh_material,
                                      cached_light_pipelines, compiled,
                                      physical_target_size[v])
          IN  /\ light_run' =
                    [view |-> v,
                     ready |-> query_ok /\ mesh_material /\ compiled,
                     result |-> out.result,
                     dispatch |-> out.dispatch,
                     wrote |-> IF out.dispatch = <<>>
                               THEN {}
                               ELSE {"render",
                                     ReservoirImage(light_bind_group[v].current)}]
              /\ stage' = IF out.result = "panic" THEN "panicked" ELSE stage
    /\ trace' = Append(trace, LIGHT_DIRECT_PASS)
    /\ overlay_run' = OverlayNotRun
    /\ UNCHANGED << graph_view, overlay_view >>
    /\ FrameUnchanged

\* ClearColorConfig of the view's Camera3d
ClearColorConfigs == {"Default", "Custom", "None"}

\* `load: match camera_3d.clear_color { ... }`
OverlayLoadOp(clear_color) ==
    CASE clear_color = "Default" -> "Clear"
      [] clear_color = "Custom" -> "Clear"
      [] clear_color = "None" -> "Load"

\* `depth_stencil_attachment: None` of the pass, `depth_stencil: None` of the pipeline
OverlayDepthStencil == "None"

\* DrawOverlay = (SetItemPipeline, SetOverlayBindGroup<0>, DrawMesh) for one
\* item: an item whose pipeline is not compiled is skipped; otherwise
\* SetOverlayBindGroup::render unwraps the bind group.
DrawOverlayItem(pipeline_ready, bind_group) ==
    IF ~pipeline_ready THEN "skipped"
    ELSE IF bind_group = <<>> THEN "panic"
    ELSE "drawn"

\* OverlayPassNode::run for view v (a ViewNode: a view that does not match the
\* ViewQuery is skipped).  Nothing in HikariPlugin::build adds the node to the
\* sub-graph, so no run of the sub-graph runs it: the host may run it for a
\* view, from another graph, between two runs of the sub-graph, at most once
\* a frame and walking the views in their order.
RunOverlayPassNode(v) ==
    /\ stage = "render"
    /\ OVERLAY \notin graph.nodes
    /\ ~Running
    /\ v > overlay_view
    /\ overlay_view' = v
    /\ \E view_target \in BOOLEAN, clear_color \in ClearColorConfigs,
          pipeline_ready \in BOOLEAN :
          LET query_ok == /\ camera[v] = "active3d"
                          /\ overlay_phase[v] >= 0
                          /\ view_target
              item == IF query_ok /\ overlay_phase[v] > 0
                      THEN DrawOverlayItem(pipeline_ready, overlay_bind_group)
                      ELSE "none"
          IN  /\ overlay_run' =
                    [view |-> v,
                     load |-> IF query_ok THEN OverlayLoadOp(clear_color)
                              ELSE "none",
                     item |-> item,
                     bound |-> IF item = "drawn" THEN overlay_bind_group
                               ELSE <<>>]
              /\ stage' = IF item = "panic" THEN "panicked" ELSE stage
    /\ light_run' = LightNotRun
    /\ UNCHANGED << graph_view, trace >>
    /\ FrameUnchanged

\* The render stage ends once no sub-graph run is under way; the cleanup
\* stage clears the entities of the render world.
EndFrame ==
    /\ stage = "render"
    /\ ~Running
    /\ stage' = "begin"
    /\ todo' = {}
    /\ hist_current' =
          IF \E v \in Views : light_bind_group[v].some
          THEN light_bind_group[CHOOSE v \in Views : light_bind_group[v].some].current
          ELSE -1
    /\ ClearEntities
    /\ UNCHANGED << graph, counter, frame_number, frame_binding, frame_kernel,
                    cached_light_pipelines, overlay_bind_group, target_vars,
                    side_vars >>

Next ==
    \/ BeginFrame
    \/ ExtractPrepassCameraPhases
    \/ ExtractOverlayCameraPhases
    \/ PreparePrepassTargets
    \/ PrepareLightPassTargets
    \/ PrepareFrameUniform
    \/ QueueViewBindGroups
    \/ QueueLightBindGroups
    \/ QueueLightPipelines
    \/ QueueOverlayMesh
    \/ PrepareOverlayBindGroup
    \/ \E v \in Views : RunSubGraph(v)
    \/ RunInputNode
    \/ RunPrepassNode
    \/ RunLightPassNode
    \/ \E n \in HostNodes : RunHostNode(n)
    \/ \E v \in Views : RunOverlayPassNode(v)
    \/ EndFrame

Spec == Init /\ [][Next]_vars

\* ------------------------------------- frames that take their images
\* ------------------------------------- from the texture cache
\* What the frames of render targets leave alone of the sub-graph's state.
GraphUnchanged ==
    UNCHANGED << graph, graph_view, overlay_view, trace, light_run, overlay_run,
                 cached_light_pipelines, overlay_bind_group, view_bind_group,
                 hist_current, side_vars >>

\* The host extracts the cameras: a view has no camera or an active 3D camera,
\* whose target has one of the sizes of ResizedSizes or none.
BeginResizedFrame ==
    /\ stage = "begin"
    /\ counter < MaxFrames
    /\ \E kinds \in [Views -> {"none", "active3d"}] :
       \E sizes \in [Views -> {NoSize} \cup ResizedSizes] :
          /\ \A v \in Views : kinds[v] = "none" => sizes[v] = NoSize
          /\ camera' = kinds
          /\ physical_target_size' = sizes
    /\ stage' = "extract"
    /\ todo' = StageSystems("extract")
    /\ UNCHANGED << counter, frame_number, frame_binding, frame_kernel, prepass_phase,
                    overlay_phase, prepass_target, light_pass_target,
                    light_bind_group, deferred_entries, noise_seen, target_vars >>
    /\ GraphUnchanged

\* `for (entity, camera) in &cameras` of prepare_light_pass_targets, from view
\* v on: every view the query matches whose camera has a size gets the images
\* of a LightPassTarget.
RECURSIVE LightPassTargets(_, _, _)
LightPassTargets(st, cameras, v) ==
    IF v > NumViews THEN st
    ELSE IF cameras[v].some /\ cameras[v].physical_target_size # NoSize
         THEN LET one == ViewLightImages(st, cameras[v].physical_target_size)
              IN  LightPassTargets(
                      [cache |-> one.cache, created |-> one.created,
                       images |-> <<>>,
                       targets |-> [st.targets EXCEPT ![v] = one.images]],
                      cameras, v + 1)
         ELSE LightPassTargets(st, cameras, v + 1)

\* prepare_light_pass_targets with the texture cache.
PrepareLightPassTargetImages ==
    /\ "prepare_light_pass_targets" \in todo
    /\ LET cameras == [v \in Views |->
                          [some |-> camera[v] # "none",
                           physical_target_size |-> physical_target_size[v]]]
           done == LightPassTargets(
                       [cache |-> texture_cache, created |-> textures_created,
                        images |-> <<>>, targets |-> NoImages], cameras, 1)
       IN  /\ texture_cache' = done.cache
           /\ textures_created' = done.created
           /\ light_images' = done.targets
           /\ light_pass_target' = [v \in Views |-> done.targets[v] # <<>>]
    /\ SystemDone("prepare_light_pass_targets")
    /\ UNCHANGED << counter, frame_number, frame_binding, frame_kernel, camera,
                    physical_target_size, prepass_phase, overlay_phase,
                    prepass_target, light_bind_group, deferred_entries, noise_seen,
                    prepass_images, written, last_size >>
    /\ GraphUnchanged

\* `for (entity, camera) in &cameras` of prepare_prepass_targets, from view v
\* on: every view the query matches (an ExtractedCamera With<RenderPhase<Prepass>>)
\* whose camera has a size.
RECURSIVE PrepassTargets(_, _, _)
PrepassTargets(st, cameras, v) ==
    IF v > NumViews THEN st
    ELSE IF cameras[v].some /\ cameras[v].physical_target_size # NoSize
         THEN LET one == ViewPrepassImages(st, cameras[v].physical_target_size)
              IN  PrepassTargets(
                      [cache |-> one.cache, created |-> one.created,
                       images |-> <<>>,
                       targets |-> [st.targets EXCEPT ![v] = one.images]],
                      cameras, v + 1)
         ELSE PrepassTargets(st, cameras, v + 1)

\* prepare_prepass_targets with the texture cache.
PreparePrepassTargetImages ==
    /\ "prepare_prepass_targets" \in todo
    /\ LET cameras == [v \in Views |->
                          [some |-> camera[v] # "none" /\ prepass_phase[v],
                           physical_target_size |-> physical_target_size[v]]]
           done == PrepassTargets(
                       [cache |-> texture_cache, created |-> textures_created,
                        images |-> <<>>, targets |-> NoImages], cameras, 1)
       IN  /\ texture_cache' = done.cache
           /\ textures_created' = done.created
           /\ prepass_images' = done.targets
           /\ prepass_target' = [v \in Views |-> done.targets[v] # <<>>]
    /\ SystemDone("prepare_prepass_targets")
    /\ UNCHANGED << counter, frame_number, frame_binding, frame_kernel, camera,
                    physical_target_size, prepass_phase, overlay_phase,
                    light_pass_target, light_bind_group, deferred_entries, noise_seen,
                    light_images, written, last_size >>
    /\ GraphUnchanged

\* The textures a dispatch with bind group `render` can write: binding 0
\* (render) and bindings 1-7 (the current copy).
WrittenBy(images, current_id) ==
    {RenderImage(images).texture}
        \cup {ReservoirCopy(images, current_id)[i].texture : i \in 1..RESERVOIR_IMAGES}

\* The textures a dispatch with bind group `render` reads as history:
\* binding 8 (the previous copy).
HistoryOf(images, previous_id) ==
    {ReservoirCopy(images, previous_id)[i].texture : i \in 1..RESERVOIR_IMAGES}

\* The queue and render stages as far as the targets go, in a frame that has
\* all noise images, the MeshMaterialBindGroup and the compiled pipeline:
\* queue_light_bind_groups binds the copies and LightPassNode::run dispatches
\* for every bound view.
QueueAndRunLightPass ==
    /\ stage = "queue"
    /\ LET bound == QueuedLightBindGroups(NoiseHandles)
           dispatched == {v \in Views : bound[v].some}
       IN  /\ light_bind_group' = bound
           /\ deferred_entries' = QueuedDeferredEntries(NoiseHandles)
           /\ noise_seen' = "ready"
           /\ written' = written \cup
                 UNION {WrittenBy(light_images[v], bound[v].current) :
                           v \in dispatched}
    /\ stage' = "render"
    /\ todo' = {}
    /\ UNCHANGED << counter, frame_number, frame_binding, frame_kernel, camera,
                    physical_target_size, prepass_phase, overlay_phase,
                    prepass_target, light_pass_target, texture_cache,
                    textures_created, light_images, prepass_images, last_size >>
    /\ GraphUnchanged

\* The textures the cache holds.
CachedTextures(cache) ==
    UNION {{cache[d][i].id : i \in 1..Len(cache[d])} : d \in Descriptors}

\* The cleanup stage: TextureCache::update, then the entities are cleared.
CleanupResizedFrame ==
    /\ stage = "render"
    /\ texture_cache' = CacheUpdate(texture_cache)
    /\ written' = written \cap CachedTextures(CacheUpdate(texture_cache))
    /\ last_size' = physical_target_size
    /\ light_images' = NoImages
    /\ prepass_images' = NoImages
    /\ stage' = "begin"
    /\ todo' = {}
    /\ ClearEntities
    /\ textures_created' = 0
    /\ UNCHANGED << graph, counter, frame_number, frame_binding, frame_kernel,
                    cached_light_pipelines, overlay_bind_group, hist_current,
                    side_vars >>

TargetNext ==
    \/ BeginResizedFrame
    \/ ExtractPrepassCameraPhases
    \/ ExtractOverlayCameraPhases
    \/ PreparePrepassTargetImages
    \/ PrepareLightPassTargetImages
    \/ PrepareFrameUniform
    \/ QueueAndRunLightPass
    \/ CleanupResizedFrame

\* Frames of cameras whose targets are resized, with the texture cache.
TargetSpec == Init /\ [][TargetNext]_vars

\* ------------------------------------------- frames of the mesh assets
\* extract_mesh_assets, on the asset events of the frame and the meshes
\* Assets<Mesh> holds at the time.
ExtractMeshAssets ==
    /\ mesh_stage = "extract"
    /\ \E events \in EventSeqs, assets \in [MeshIds -> Meshes \cup {NoMesh}] :
          LET read == ReadEvents(events, {}, <<>>)
              found == {id \in read.changed_assets : assets[id] # NoMesh}
          IN  \E order \in DrainOrders(found) :
                 LET extracted ==
                         [i \in 1..Len(order) |-> <<order[i], assets[order[i]]>>]
                 IN  /\ asset_state' = StateAfterExtract(extracted, read.removed)
                     /\ extracted_meshes' =
                           [extracted |-> extracted, removed |-> read.removed]
          /\ event_order' =
                EventOrder(events, assets, [id \in MeshIds |-> "none"])
          /\ live_meshes' =
                LiveAfter(live_meshes,
                          EventOrder(events, assets, [id \in MeshIds |-> "none"]))
    /\ mesh_stage' = "prepare"
    /\ buffer_written' = FALSE
    /\ from_mesh_errors' = {}
    /\ UNCHANGED << local_assets, gpu_meshes, render_assets >>
    /\ UNCHANGED << render_vars, target_vars, queue_vars, history_vars,
                    material_vars >>

\* prepare_mesh_assets.  A panic of unwrap() ends the render world's frame.
PrepareMeshAssets ==
    /\ mesh_stage = "prepare"
    /\ IF asset_state = "Clean"
       THEN /\ mesh_stage' = "extract"
            /\ UNCHANGED << asset_state, extracted_meshes, local_assets,
                            gpu_meshes, render_assets, buffer_written,
                            from_mesh_errors >>
       ELSE LET removed == Elements(extracted_meshes.removed)
                kept == [id \in MeshIds |->
                            IF id \in removed THEN NoMesh ELSE local_assets[id]]
                meshes == [id \in MeshIds |->
                              IF id \in removed THEN <<>> ELSE gpu_meshes[id]]
                inserted == InsertExtracted(kept, extracted_meshes.extracted)
                rebuilt == RebuildFrom(inserted.assets, 1, EmptyRenderAssets,
                                       meshes)
            IN  /\ extracted_meshes' = NoExtractedMeshes
                /\ local_assets' = inserted.assets
                /\ from_mesh_errors' = inserted.errors
                /\ IF inserted.errors # {}
                   THEN /\ mesh_stage' = "aborted"
                        /\ gpu_meshes' = meshes
                        /\ UNCHANGED << asset_state, render_assets,
                                        buffer_written >>
                   ELSE /\ mesh_stage' = "extract"
                        /\ gpu_meshes' = rebuilt.meshes
                        /\ render_assets' = rebuilt.render_assets
                        /\ buffer_written' = TRUE
                        /\ asset_state' = "Updated"
    /\ UNCHANGED << event_order, live_meshes >>
    /\ UNCHANGED << render_vars, target_vars, queue_vars, history_vars,
                    material_vars >>

MeshNext ==
    \/ ExtractMeshAssets
    \/ PrepareMeshAssets

\* The frames of the mesh asset systems.
MeshSpec == Init /\ [][MeshNext]_vars

\* ---------------------------------------- frames of the material assets
\* extract_material_assets, on the asset events of the frame and the
\* materials Assets<StandardMaterial> holds at the time.
ExtractMaterialAssets ==
    /\ material_stage = "extract"
    /\ \E events \in MaterialEventSeqs,
          assets \in [MaterialIds -> {<<>>} \cup {<<m>> : m \in Materials}] :
          LET read == ReadEvents(events, {}, <<>>)
              found == {id \in read.changed_assets : assets[id] # <<>>}
          IN  \E order \in DrainOrders(found) :
                 LET extracted ==
                         [i \in 1..Len(order) |->
                             <<order[i], assets[order[i]][1]>>]
                 IN  /\ extracted_materials' =
                           [extracted |-> extracted, removed |-> read.removed]
                     /\ frame_reported' =
                           (extracted # <<>> \/ read.removed # <<>>)
    /\ material_stage' = "pre_prepare"
    /\ material_written' = FALSE
    /\ UNCHANGED << standard_materials, materials_changed, prepare_has_run,
                    material_textures, gpu_materials, material_buffer >>
    /\ UNCHANGED << render_vars, target_vars, mesh_vars, queue_vars,
                    history_vars >>

\* prepare_generic_material_assets
PrepareGenericMaterialAssets ==
    /\ material_stage = "pre_prepare"
    /\ LET kept == RemoveMaterials(standard_materials,
                                   extracted_materials.removed)
           inserted == InsertMaterials(kept, material_textures,
                                       extracted_materials.extracted)
       IN  /\ standard_materials' = inserted.materials
           /\ material_textures' = inserted.textures
           /\ materials_changed' =
                 (materials_changed
                  \/ MarksChanged(extracted_materials.extracted,
                                  extracted_materials.removed))
    /\ extracted_materials' = NoExtractedMaterials
    /\ material_stage' = "prepare"
    /\ UNCHANGED << frame_reported, prepare_has_run, gpu_materials,
                    material_buffer, material_written >>
    /\ UNCHANGED << render_vars, target_vars, mesh_vars, queue_vars,
                    history_vars >>

\* prepare_material_assets
PrepareMaterialAssets ==
    /\ material_stage = "prepare"
    /\ IF ~IsChanged
       THEN UNCHANGED << gpu_materials, material_buffer, material_written >>
       ELSE LET collected ==
                    CollectMaterials(standard_materials, material_textures, 1,
                                     0, ClearedGpuMaterials, <<>>)
            IN  /\ gpu_materials' = collected.assets
                /\ material_buffer' = collected.data
                /\ material_written' = TRUE
    /\ materials_changed' = FALSE
    /\ prepare_has_run' = TRUE
    /\ material_stage' = "extract"
    /\ UNCHANGED << extracted_materials, frame_reported, standard_materials,
                    material_textures >>
    /\ UNCHANGED << render_vars, target_vars, mesh_vars, queue_vars,
                    history_vars >>

MaterialNext ==
    \/ ExtractMaterialAssets
    \/ PrepareGenericMaterialAssets
    \/ PrepareMaterialAssets

\* The frames of the material asset systems.
MaterialSpec == Init /\ [][MaterialNext]_vars

\* --------------------------------------- frames of the prepass phase
\* The frame's entities as queue_prepass_meshes finds them: the meshes of the
\* entities and, for every view of the query, its visible entities and an
\* empty RenderPhase<Prepass>.
QueuePrepassInput ==
    /\ queue_pc = "input"
    /\ mesh_entities' \in [Entities -> EntityMeshes]
    /\ visible_entities' \in
          [Views -> {<<>>} \cup {<<visible>> : visible \in SUBSET Entities}]
    /\ prepass_items' = [v \in Views |-> <<>>]
    /\ error_log' = <<>>
    /\ queue_pc' = "queue"
    /\ UNCHANGED << render_vars, target_vars, mesh_vars, history_vars,
                    material_vars >>

\* queue_prepass_meshes
QueuePrepassMeshes ==
    /\ queue_pc = "queue"
    /\ LET done == ForEachView([phases |-> prepass_items, log |-> error_log],
                               1, visible_entities, mesh_entities)
       IN  /\ prepass_items' = done.phases
           /\ error_log' = done.log
    /\ queue_pc' = "done"
    /\ UNCHANGED << mesh_entities, visible_entities >>
    /\ UNCHANGED << render_vars, target_vars, mesh_vars, history_vars,
                    material_vars >>

QueueNext ==
    \/ QueuePrepassInput
    \/ QueuePrepassMeshes

\* The frames of queue_prepass_meshes.
QueueSpec == Init /\ [][QueueNext]_vars

\* ------------------------------------------ dispatches for any size
\* Greatest width and height of a camera's target.
MaxExtent == 17

\* LightPassNode::run for a view that has all the node asks for: its camera
\* with a target size, its bind groups, the MeshMaterialBindGroup and the
\* compiled pipeline.
DispatchLightPass ==
    /\ light_run = LightNotRun
    /\ \E v \in Views, width \in 1..MaxExtent, height \in 1..MaxExtent,
          current \in {0, 1} :
           LET size == <<width, height>>
               out == LightPassOutcome(TRUE, TRUE, TRUE, TRUE, size)
           IN  /\ camera' = [u \in Views |-> IF u = v THEN "active3d" ELSE "none"]
               /\ physical_target_size' =
                     [u \in Views |-> IF u = v THEN size ELSE NoSize]
               /\ view_bind_group' = [u \in Views |-> u = v]
               /\ light_bind_group' =
                     [u \in Views |->
                         IF u = v
                         THEN [some |-> TRUE, current |-> current,
                               previous |-> 1 - current]
                         ELSE NoLightBindGroup]
               /\ deferred_entries' =
                     [u \in Views |-> IF u = v THEN DeferredEntries(u) ELSE <<>>]
               /\ light_run' =
                     [view |-> v,
                      ready |-> TRUE,
                      result |-> out.result,
                      dispatch |-> out.dispatch,
                      wrote |-> {"render", ReservoirImage(current)}]
               /\ UNCHANGED << stage, todo, graph, counter, frame_number,
                               frame_binding, frame_kernel, prepass_phase,
                               overlay_phase, prepass_target, light_pass_target,
                               cached_light_pipelines, overlay_bind_group,
                               noise_seen, graph_view, overlay_view, trace,
                               overlay_run, hist_current >>
               /\ UNCHANGED << target_vars, side_vars >>

\* The lighting node run for cameras of every size up to MaxExtent.
DispatchSpec == Init /\ [][DispatchLightPass]_vars

\* ------------------------------------------ frames of a wide counter
\* The resources after any number of frames: the counter is 0 and FrameUniform
\* its Default, or prepare_frame_uniform has written the counter's value of
\* the frame before.
LimbsInit ==
    /\ \/ /\ counter = LimbsZero
          /\ frame_number = AsU32Limbs(LimbsZero)
          /\ frame_binding = FALSE
          /\ frame_kernel = GpuFrameDefaultKernel
       \/ \E before \in LimbsBeforeCarry :
             /\ counter = IncrementLimbs(before)
             /\ frame_number = AsU32Limbs(before)
             /\ frame_binding = TRUE
             /\ frame_kernel = Kernel
    /\ InitResources

\* The frame comes to its prepare stage; no camera is extracted.
BeginPrepareStage ==
    /\ stage = "begin"
    /\ counter[1] # MaxFrames
    /\ stage' = "prepare"
    /\ todo' = StageSystems("prepare")
    /\ UNCHANGED << graph, counter, frame_number, frame_binding, frame_kernel,
                    camera, physical_target_size, prepass_phase, overlay_phase,
                    prepass_target, light_pass_target, view_bind_group,
                    light_bind_group, deferred_entries, cached_light_pipelines,
                    overlay_bind_group, noise_seen, hist_current >>
    /\ RenderUnchanged

\* prepare_frame_uniform with the counter in limbs.
PrepareFrameUniformLimbs ==
    /\ "prepare_frame_uniform" \in todo
    /\ frame_number' = AsU32Limbs(counter)
    /\ frame_kernel' = Kernel
    /\ frame_binding' = TRUE
    /\ counter' = IncrementLimbs(counter)
    /\ SystemDone("prepare_frame_uniform")
    /\ UNCHANGED << graph, camera, physical_target_size, prepass_phase,
                    overlay_phase, prepass_target, light_pass_target,
                    view_bind_group, light_bind_group, deferred_entries, cached_light_pipelines,
                    overlay_bind_group, noise_seen, hist_current >>
    /\ RenderUnchanged

\* The rest of the frame, from the end of the prepare stage to the cleanup.
EndPreparedFrame ==
    /\ stage = "queue"
    /\ stage' = "begin"
    /\ todo' = {}
    /\ ClearEntities
    /\ UNCHANGED << graph, counter, frame_number, frame_binding, frame_kernel,
                    cached_light_pipelines, overlay_bind_group, hist_current,
                    target_vars, side_vars >>

LimbsNext ==
    \/ BeginPrepareStage
    \/ PreparePrepassTargets
    \/ PrepareLightPassTargets
    \/ PrepareFrameUniformLimbs
    \/ EndPreparedFrame

\* The prepare stage of frames whose counter is near a carry.
LimbsSpec == LimbsInit /\ [][LimbsNext]_vars

\* --------------------------------------- frames with skipped lighting
\* Number of frames in a row that are followed.
MaxHistoryFrames == 3

\* The extract and prepare stages of a frame: each view is an active 3D camera
\* of the one size, with ViewBindGroup, PrepassTarget and LightPassTarget, or
\* it is no camera in this frame; prepare_frame_uniform counts the frame.
PrepareHistoryFrame ==
    /\ stage = "begin"
    /\ counter < MaxHistoryFrames
    /\ \E active \in SUBSET Views :
          /\ camera' = [v \in Views |-> IF v \in active THEN "active3d" ELSE "none"]
          /\ physical_target_size' =
                [v \in Views |-> IF v \in active THEN <<9, 8>> ELSE NoSize]
          /\ prepass_phase' = [v \in Views |-> v \in active]
          /\ prepass_target' = [v \in Views |-> v \in active]
          /\ light_pass_target' = [v \in Views |-> v \in active]
          /\ view_bind_group' = [v \in Views |-> v \in active]
    /\ frame_number' = AsU32(counter)
    /\ frame_kernel' = Kernel
    /\ frame_binding' = TRUE
    /\ counter' = IncrementCounter(counter)
    /\ stage' = "queue"
    /\ todo' = {}
    /\ UNCHANGED << graph, overlay_phase, light_bind_group, deferred_entries,
                    cached_light_pipelines, overlay_bind_group, noise_seen,
                    graph_view, overlay_view, trace, light_run, overlay_run,
                    hist_current, target_vars, mesh_vars, queue_vars,
                    history_vars, material_vars >>

\* queue_light_bind_groups and the runs of LightPassNode of the frame: the
\* noise images are loaded or not, and the MeshMaterialBindGroup and the
\* compiled pipeline are there or not; the node dispatches for the views its
\* query matches, and the dispatch writes the copy bound as current.
QueueAndRunHistoryFrame ==
    /\ stage = "queue"
    /\ \E loaded \in SUBSET NoiseHandles, mesh_material \in BOOLEAN,
          compiled \in BOOLEAN :
          LET bound == QueuedLightBindGroups(loaded)
              ran == {v \in Views :
                        LightPassOutcome(view_bind_group[v] /\ bound[v].some,
                                         mesh_material, TRUE, compiled,
                                         physical_target_size[v]).dispatch # <<>>}
          IN  /\ light_bind_group' = bound
              /\ deferred_entries' = QueuedDeferredEntries(loaded)
              /\ noise_seen' = IF NoiseHandles \subseteq loaded
                               THEN "ready" ELSE "missing"
              /\ dispatched_views' = ran
              /\ last_written' =
                    [v \in Views |->
                        IF v \in ran THEN bound[v].current ELSE last_written[v]]
    /\ stage' = "render"
    /\ UNCHANGED << todo, graph, counter, frame_number, frame_binding,
                    frame_kernel, camera, physical_target_size, prepass_phase,
                    overlay_phase, prepass_target, light_pass_target,
                    view_bind_group, cached_light_pipelines, overlay_bind_group,
                    graph_view, overlay_view, trace, light_run, overlay_run,
                    hist_current, target_vars, mesh_vars, queue_vars,
                    material_vars >>

\* The cleanup stage: the entities of the frame are cleared.
CleanupHistoryFrame ==
    /\ stage = "render"
    /\ stage' = "begin"
    /\ ClearEntities
    /\ dispatched_views' = {}
    /\ UNCHANGED << todo, graph, counter, frame_number, frame_binding,
                    frame_kernel, cached_light_pipelines, overlay_bind_group,
                    hist_current, last_written, target_vars, mesh_vars,
                    queue_vars, material_vars >>

HistoryNext ==
    \/ PrepareHistoryFrame
    \/ QueueAndRunHistoryFrame
    \/ CleanupHistoryFrame

\* Frames of unchanged size in which the lighting pass runs or is skipped.
HistorySpec == Init /\ [][HistoryNext]_vars

\* ============================================================== claims
\* The views that have a LightBindGroup after queue_light_bind_groups.
Bound == {v \in Views : light_bind_group[v].some}

\* C1: queue_light_bind_groups binds one of the two reservoir copies as
\* current and the other one as previous, never the same copy for both, and
\* the copy that was current in the frame before is the previous copy now.
C1_RolesSwapEveryFrame ==
    \A v \in Bound :
        /\ light_bind_group[v].current \in {0, 1}
        /\ light_bind_group[v].previous \in {0, 1}
        /\ light_bind_group[v].current # light_bind_group[v].previous
        /\ hist_current # -1 => light_bind_group[v].previous = hist_current

\* A second frame in a row binds the copies for some view.
C1_Witness ==
    \E v \in Bound : hist_current # -1 /\ frame_number >= 1

\* C2 as claimed: in the frame whose GpuFrame.number is N, the copy bound as
\* current is copy N mod 2.
C2_CurrentIsParityOfNumber ==
    \A v \in Bound : light_bind_group[v].current = frame_number % 2

\* C2 as amended: in the frame whose GpuFrame.number is N, the copy bound as
\* current is copy (N + 1) mod 2, the parity of FrameCounter after the
\* increment prepare_frame_uniform made in the prepare stage of that frame.
C2_CurrentIsParityOfNextNumber ==
    \A v \in Bound : light_bind_group[v].current = (frame_number + 1) % 2

\* Copies are bound in the frame numbered 0 and in a later one.
C2_Witness ==
    \E v \in Bound : frame_number = 1 /\ light_bind_group[v].current = 0

\* Node a has run before node b in the sub-graph run under way.
Before(a, b) == Pos(trace, a) # 0 /\ Pos(trace, a) < Pos(trace, b)

\* C3: in every run of the sub-graph, the prepass node has finished when the
\* lighting node begins, and the lighting node when the upscaling node begins.
C3_PrepassLightingUpscaling ==
    /\ LIGHT_DIRECT_PASS \in Range(trace) => Before(PREPASS, LIGHT_DIRECT_PASS)
    /\ UPSCALING \in Range(trace) => Before(LIGHT_DIRECT_PASS, UPSCALING)

\* A run of the sub-graph has reached the upscaling node.
C3_Witness == UPSCALING \in Range(trace)

\* A set of edges over a set of nodes has no cycle when removing, again and
\* again, the nodes no remaining edge enters leaves no node.
RECURSIVE Acyclic(_, _)
Acyclic(nodes, edges) ==
    LET sources == {n \in nodes : \A e \in edges : e[2] = n => e[1] \notin nodes}
    IN  IF nodes = {} THEN TRUE
        ELSE IF sources = {} THEN FALSE
        ELSE Acyclic(nodes \ sources, edges)

\* C4: the node edges of the registered sub-graph form no cycle, every node
\* that has run in a sub-graph run was preceded by every node with an edge
\* into it, and no step of any frame changes the graph.
C4_FixedAcyclicOrder ==
    /\ [](/\ Acyclic(graph.nodes, graph.node_edges)
          /\ \A e \in graph.node_edges \cup graph.slot_edges :
                e[2] \in Range(trace) => Before(e[1], e[2]))
    /\ [][graph' = graph]_vars

\* Every node of the sub-graph has run, in a frame after the first.
C4_Witness ==
    /\ graph_view # 0
    /\ graph.nodes \subseteq Range(trace)
    /\ frame_number >= 1

\* C5 as claimed: in every run of the sub-graph the overlay pass runs after
\* the lighting pass and before the upscaling node begins.
C5_OverlayBetweenLightingAndUpscaling ==
    UPSCALING \in Range(trace) =>
        /\ Before(LIGHT_DIRECT_PASS, OVERLAY)
        /\ Before(OVERLAY, UPSCALING)

\* C6: LightPassNode::run never panics, and when the view lacks a queried
\* component, MeshMaterialBindGroup is absent or the pipeline is not compiled
\* it dispatches nothing and writes no image of the LightPassTarget.
C6_LightPassSkipsWhenNotReady ==
    light_run.view # 0 =>
        /\ light_run.result = "ok"
        /\ ~light_run.ready =>
              /\ light_run.dispatch = <<>>
              /\ light_run.wrote = {}

\* LightPassNode::run has skipped a view whose bind groups exist.
C6_Witness ==
    /\ light_run.view # 0
    /\ ~light_run.ready
    /\ light_bind_group[light_run.view].some
    /\ view_bind_group[light_run.view]
    /\ light_run.result = "ok"

\* C7: a frame in which a noise texture has no GPU image gives no view a
\* LightBindGroup and dispatches no lighting; a frame in which all of them
\* have one gives a LightBindGroup to exactly the views with a PrepassTarget
\* and a LightPassTarget.
C7_NoiseTexturesGateBindGroups ==
    /\ noise_seen = "missing" =>
          /\ Bound = {}
          /\ light_run.dispatch = <<>>
    /\ noise_seen = "ready" /\ frame_binding =>
          Bound = {v \in Views : prepass_target[v] /\ light_pass_target[v]}

\* The lighting node runs in a frame without noise images for a view that
\* has both targets, after a frame that had bound the copies.
C7_Witness ==
    /\ noise_seen = "missing"
    /\ light_run.view # 0
    /\ prepass_target[light_run.view]
    /\ light_pass_target[light_run.view]
    /\ hist_current # -1

\* C8 as claimed: whenever SetOverlayBindGroup::render draws an Overlay item,
\* OverlayBindGroup.bind_group is Some: the overlay pass never panics.
C8_OverlayBindGroupIsSomeWhenDrawn ==
    overlay_run.item # "panic"

\* C9 as claimed: for every ClearColorConfig, OverlayPassNode::run loads the
\* color target instead of clearing it, and it uses no depth test.
C9_OverlayLoadsColorTarget ==
    /\ overlay_run.load \in {"none", "Load"}
    /\ OverlayDepthStencil = "None"

\* C10 as claimed: when two or more views have a LightPassTarget, the bind
\* group an overlay draw of view V uses was built from V's render image.
C10_OverlaySamplesOwnView ==
    /\ overlay_run.item = "drawn"
    /\ Cardinality({v \in Views : light_pass_target[v]}) >= 2
    => overlay_run.bound = <<overlay_run.view>>

\* The textures of a sequence of images.
TexturesOf(images) == {images[i].texture : i \in 1..Len(images)}

\* The targets of the frame: <<"light", v>> and <<"prepass", v>>.
Targets == {"light", "prepass"} \X Views

ImagesOf(target) ==
    IF target[1] = "light" THEN light_images[target[2]]
    ELSE prepass_images[target[2]]

\* Number of images of a LightPassTarget and of a PrepassTarget.
LIGHT_TARGET_IMAGES == 15
PREPASS_TARGET_IMAGES == 5

\* C11: the 15 images of a view's LightPassTarget are pairwise distinct
\* textures, none of them is at the same time an image of another view's
\* LightPassTarget or of a PrepassTarget, and the two reservoir copies of a
\* view share no texture.
C11_TargetsOwnTheirTextures ==
    /\ \A v \in Views : light_images[v] # <<>> =>
          /\ Len(light_images[v]) = LIGHT_TARGET_IMAGES
          /\ Cardinality(TexturesOf(light_images[v])) = LIGHT_TARGET_IMAGES
          /\ TexturesOf(ReservoirCopy(light_images[v], 0))
                \cap TexturesOf(ReservoirCopy(light_images[v], 1)) = {}
    /\ \A v \in Views : prepass_images[v] # <<>> =>
          Cardinality(TexturesOf(prepass_images[v])) = PREPASS_TARGET_IMAGES
    /\ \A s \in Targets, t \in Targets :
          s # t => TexturesOf(ImagesOf(s)) \cap TexturesOf(ImagesOf(t)) = {}

\* Two views of the same size have both targets in a frame that takes its
\* textures from the cache of the frame before.
C11_Witness ==
    \E v \in Views, w \in Views :
        /\ v # w
        /\ physical_target_size[v] = physical_target_size[w]
        /\ light_images[v] # <<>> /\ light_images[w] # <<>>
        /\ prepass_images[v] # <<>> /\ prepass_images[w] # <<>>
        /\ textures_created = 0

\* C12: every image of the PrepassTarget and of the LightPassTarget inserted
\* for a camera of size s has texture extent s and reported size s, in the
\* frame of a resize too; once the prepare stage is over every camera with a
\* size has its LightPassTarget, and a camera without a size gets no target.
C12_ImagesHaveTheRequestedSize ==
    \A v \in Views :
        /\ \A t \in {<<"light", v>>, <<"prepass", v>>} :
              \A i \in 1..Len(ImagesOf(t)) :
                  /\ ImagesOf(t)[i].size = physical_target_size[v]
                  /\ ImagesOf(t)[i].extent = physical_target_size[v]
        /\ physical_target_size[v] = NoSize =>
              light_images[v] = <<>> /\ prepass_images[v] = <<>>
        /\ stage \in {"queue", "render"} /\ camera[v] # "none"
              /\ physical_target_size[v] # NoSize =>
              Len(light_images[v]) = LIGHT_TARGET_IMAGES

\* A camera has both targets in the frame in which its size has changed, next
\* to a camera that has no size.
C12_Witness ==
    \E v \in Views, w \in Views :
        /\ last_size[v] # NoSize
        /\ physical_target_size[v] # NoSize
        /\ physical_target_size[v] # last_size[v]
        /\ light_images[v] # <<>> /\ prepass_images[v] # <<>>
        /\ camera[w] # "none" /\ physical_target_size[w] = NoSize
        /\ stage = "render"

C14_NoHistoryAfterResize ==
    \A v \in Views :
        /\ light_bind_group[v].some
        /\ last_size[v] # NoSize
        /\ physical_target_size[v] # last_size[v]
        => HistoryOf(light_images[v], light_bind_group[v].previous)
              \cap written = {}

\* C15: extract_mesh_assets leaves MeshAssetState Clean exactly when the
\* frame's extracted list and removed list are both empty, and in such a frame
\* prepare_mesh_assets changes neither the three buffers nor GpuMeshes nor
\* its local map nor the state, and writes no buffer to the GPU.
C15_CleanFramesRebuildNothing ==
    /\ [](mesh_stage = "prepare" =>
             (asset_state = "Clean" <=>
                 /\ extracted_meshes.extracted = <<>>
                 /\ extracted_meshes.removed = <<>>))
    /\ [][mesh_stage = "prepare" /\ asset_state = "Clean" =>
             /\ UNCHANGED << render_assets, gpu_meshes, local_assets,
                             asset_state >>
             /\ ~buffer_written']_vars

\* prepare_mesh_assets has run in a Clean frame that follows a frame in which
\* the buffers were built.
C15_Witness ==
    /\ mesh_stage = "extract"
    /\ asset_state = "Clean"
    /\ render_assets.vertex_buffer # <<>>
    /\ ~buffer_written

\* How often x is in a sequence.
Count(seq, x) == Cardinality({i \in 1..Len(seq) : seq[i] = x})

\* The views of the query `views` in which the entity is visible.
VisibleIn(e) ==
    {v \in Views : visible_entities[v] # <<>> /\ e \in visible_entities[v][1]}

\* C16: when queue_prepass_meshes is done, a visible entity whose mesh fails
\* to specialize has no Prepass item and one logged error per view it is
\* visible in, and every visible entity whose mesh is loaded and specializes
\* has exactly one Prepass item in every view it is visible in.
C16_FailedMeshIsSkippedOthersQueued ==
    queue_pc = "done" =>
        /\ \A v \in Views, e \in Entities :
              Count(prepass_items[v], e) =
                 IF v \in VisibleIn(e) /\ mesh_entities[e] = "complete"
                 THEN 1 ELSE 0
        /\ \A e \in Entities :
              Count(error_log, e) =
                 IF mesh_entities[e] = "incomplete"
                 THEN Cardinality(VisibleIn(e)) ELSE 0

\* A view sees a mesh that fails to specialize next to one that specializes,
\* which another view sees too.
C16_Witness ==
    /\ queue_pc = "done"
    /\ \E v \in Views, w \in Views, e \in Entities, f \in Entities :
          /\ v # w
          /\ mesh_entities[e] = "incomplete"
          /\ mesh_entities[f] = "complete"
          /\ v \in VisibleIn(e) /\ v \in VisibleIn(f) /\ w \in VisibleIn(f)
          /\ prepass_items[v] = <<f>>
          /\ prepass_items[w] = <<f>>
          /\ Count(error_log, e) >= 1

\* C17 as claimed: when GpuMesh::from_mesh returns an error for an extracted
\* mesh, prepare_mesh_assets does not abort and reaches the Updated state.
C17_FailedConversionIsSkipped ==
    from_mesh_errors # {} =>
        /\ mesh_stage # "aborted"
        /\ asset_state = "Updated"
        /\ buffer_written

\* C18: the workgroup count LightPassNode::run dispatches for a target of
\* width x height is c with 8 * (c - 1) < size <= 8 * c in both components,
\* and 1 in the third.
C18_TilesCoverTheImage ==
    light_run.dispatch # <<>> =>
        LET size == physical_target_size[light_run.view]
            count == light_run.dispatch
        IN  /\ Len(count) = 3
            /\ count[3] = 1
            /\ \A k \in {1, 2} :
                  /\ 8 * (count[k] - 1) < size[k]
                  /\ size[k] <= 8 * count[k]

\* A dispatch for a width that is no multiple of 8 and a height that is one.
C18_Witness ==
    /\ light_run.dispatch = <<2, 2, 1>>
    /\ physical_target_size[light_run.view] = <<9, 16>>

\* C19: only prepare_frame_uniform changes the counter; each call writes the
\* counter's low 32 bits before the increment as GpuFrame.number and adds
\* exactly 1, so that the counter's low 32 bits are the number written plus
\* one (modulo 2^32) and the number has the parity of the counter it was
\* taken from.
C19_CounterCountsFrames ==
    /\ [](frame_binding =>
             LET next == IncrementLimbs(<<frame_number[1], frame_number[2], 0, 0>>)
             IN  <<next[1], next[2]>> = <<counter[1], counter[2]>>)
    /\ [][counter' # counter =>
             /\ "prepare_frame_uniform" \in todo
             /\ "prepare_frame_uniform" \notin todo'
             /\ counter' = IncrementLimbs(counter)
             /\ frame_number' = <<counter[1], counter[2]>>
             /\ frame_number'[1] % 2 = counter[1] % 2]_vars
    /\ [][("prepare_frame_uniform" \in todo
                /\ "prepare_frame_uniform" \notin todo') =>
             counter' # counter]_vars

\* The call at 2^32 has written 0 as the number.
C19_Witness ==
    /\ counter = <<1, 0, 1, 0>>
    /\ frame_number = <<0, 0>>
    /\ frame_binding

\* The weight the claim gives to an offset, by its class.
ClaimedWeight(x, y) ==
    LET a == Abs(x) + Abs(y)
        m == IF Abs(x) > Abs(y) THEN Abs(x) ELSE Abs(y)
    IN  CASE a = 0 -> <<9, 64>>
          [] a = 1 -> <<3, 32>>
          [] a = 2 /\ m = 1 -> <<1, 16>>
          [] a = 2 /\ m = 2 -> <<3, 128>>
          [] a = 3 -> <<1, 64>>
          [] a = 4 -> <<1, 256>>

\* The sum of the weights of the slots from `index` on, in 256ths.
RECURSIVE SumIn256ths(_, _)
SumIn256ths(kernel, index) ==
    IF index \notin DOMAIN kernel THEN 0
    ELSE kernel[index][3][1] * (256 \div kernel[index][3][2])
            + SumIn256ths(kernel, index + 1)

\* Slot i + 5 * j holds the offset (i - 2, j - 2) and the weight of its class.
ClaimedKernel ==
    [index \in 0..24 |->
        <<(index % 5) - 2, (index \div 5) - 2,
          ClaimedWeight((index % 5) - 2, (index \div 5) - 2)>>]

\* The 25 claimed weights are whole 256ths and sum to 256/256.
ClaimedWeightsSumToOne ==
    /\ \A index \in 0..24 : 256 % ClaimedKernel[index][3][2] = 0
    /\ SumIn256ths(ClaimedKernel, 0) = 256

\* The loops write every slot exactly once and never take the arm `_ => 0.0`.
EverySlotWrittenOnce ==
    /\ \A index \in 0..24 :
          Cardinality({n \in DOMAIN KernelWrites :
                          KernelWrites[n].index = index}) = 1
    /\ \A n \in DOMAIN KernelWrites :
          /\ ~KernelWrites[n].fallback
          /\ \E i \in 0..4, j \in 0..4 :
                /\ KernelWrites[n].index = i + 5 * j
                /\ KernelWrites[n].offset = <<i - 2, j - 2>>

\* C20: the kernel prepare_frame_uniform writes has in slot i + 5 * j the
\* offset (i - 2, j - 2) with the weight of its class, every slot is written
\* exactly once, the fallback 0.0 is never taken, and the 25 weights sum to
\* 256/256.
C20_KernelSumsToOne ==
    frame_binding =>
        /\ frame_kernel = ClaimedKernel
        /\ EverySlotWrittenOnce
        /\ ClaimedWeightsSumToOne

\* prepare_frame_uniform has written the kernel: 9/64 in the middle slot.
C20_Witness ==
    /\ frame_binding
    /\ frame_kernel[12] = <<0, 0, <<9, 64>>>>
    /\ frame_kernel[0] = <<-2, -2, <<1, 256>>>>

\* The slot of the offset (x, y): index = i + 5 * j with i = x + 2, j = y + 2.
SlotOf(x, y) == (x + 2) + 5 * (y + 2)

\* C21: the kernel in FrameUniform holds for every offset (x, y) the weight
\* it holds for the rotated offset (-y, x), and every call of
\* prepare_frame_uniform writes the same table, whatever the counter is.
C21_KernelIsRotationSymmetric ==
    /\ [](frame_binding =>
             \A x \in -2..2, y \in -2..2 :
                 /\ frame_kernel[SlotOf(x, y)][1] = x
                 /\ frame_kernel[SlotOf(x, y)][2] = y
                 /\ frame_kernel[SlotOf(x, y)][3]
                       = frame_kernel[SlotOf(-y, x)][3])
    /\ [][frame_binding /\ counter' # counter =>
             frame_kernel' = frame_kernel]_vars

\* The second call from the counter at 0 has written the kernel again.
C21_Witness ==
    /\ frame_binding
    /\ counter = <<2, 0, 0, 0>>
    /\ frame_kernel[SlotOf(1, 2)] = <<1, 2, <<1, 64>>>>
    /\ frame_kernel[SlotOf(-2, 1)] = <<-2, 1, <<1, 64>>>>

\* C23: after extract_mesh_assets the state is Dirty if and only if a mesh
\* was extracted or removed in the frame, and Clean otherwise; a run of
\* prepare_mesh_assets turns Dirty into Updated with the buffers written and
\* leaves Clean as it is; so after prepare the state is Updated exactly when
\* the buffers were written in the frame, and never Dirty.
C23_StateLifeCycle ==
    /\ [](mesh_stage = "prepare" =>
             /\ asset_state \in {"Clean", "Dirty"}
             /\ asset_state = "Dirty" <=>
                   \/ extracted_meshes.extracted # <<>>
                   \/ extracted_meshes.removed # <<>>)
    /\ [][mesh_stage = "prepare" /\ mesh_stage' = "extract" =>
             /\ asset_state = "Dirty" =>
                   asset_state' = "Updated" /\ buffer_written'
             /\ asset_state = "Clean" =>
                   asset_state' = "Clean" /\ ~buffer_written']_vars
    /\ [](mesh_stage = "extract" =>
             /\ asset_state \in {"Clean", "Updated"}
             /\ asset_state = "Updated" <=> buffer_written)

\* A frame that only removed the last mesh has ended Updated, with the
\* buffers rebuilt empty.
C23_Witness ==
    /\ mesh_stage = "extract"
    /\ asset_state = "Updated"
    /\ buffer_written
    /\ render_assets = EmptyRenderAssets
    /\ \A id \in MeshIds : local_assets[id] = NoMesh


\* C24: a view has a LightBindGroup only if it has both a PrepassTarget and
\* a LightPassTarget in that frame; the deferred bind group of the view binds
\* the position, normal, velocity_uv and instance_material images of that same
\* view's PrepassTarget; and the lighting node dispatches nothing for a view
\* that has a LightPassTarget but no PrepassTarget.
C24_BindGroupNeedsBothTargets ==
    /\ \A v \in Views :
          /\ light_bind_group[v].some => prepass_target[v] /\ light_pass_target[v]
          /\ light_bind_group[v].some <=> deferred_entries[v] # <<>>
          /\ light_bind_group[v].some =>
                /\ Len(deferred_entries[v]) = 4
                /\ \A i \in 1..4 : deferred_entries[v][i][1] = v
                /\ deferred_entries[v][1][2] = "position"
                /\ deferred_entries[v][2][2] = "normal"
                /\ deferred_entries[v][3][2] = "velocity_uv"
                /\ deferred_entries[v][4][2] = "instance_material"
    /\ light_run.view # 0 =>
          (light_pass_target[light_run.view] /\ ~prepass_target[light_run.view]
              => light_run.dispatch = <<>>)

C24_Witness ==
    /\ light_run.view # 0
    /\ camera[light_run.view] = "other"
    /\ light_pass_target[light_run.view]
    /\ ~prepass_target[light_run.view]
    /\ light_run.dispatch = <<>>
    /\ \E w \in Views :
          /\ light_bind_group[w].some
          /\ deferred_entries[w][4] = <<w, "instance_material">>


\* C25 as claimed: whenever the lighting pass dispatches for a view that it
\* has dispatched for before, the copy bound as previous is the copy that
\* the most recent earlier dispatch of that view wrote, however many frames
\* were skipped in between.
C25_PreviousIsLastWritten ==
    [][\A v \in Views :
          (v \in dispatched_views' /\ v \notin dispatched_views /\ last_written[v] # -1)
              => light_bind_group'[v].previous = last_written[v]]_vars


\* C26: after every frame of the mesh systems a mesh id is a key of GpuMeshes
\* exactly when it is a key of the Local map of prepare_mesh_assets, and
\* exactly when its latest Removed event is older than its latest Added or
\* Modified event that found the asset at extraction; Added then Removed in
\* one frame leaves the id absent, Removed then Added leaves it present.
C26_KeysFollowTheLatestEvent ==
    mesh_stage = "extract" =>
        \A id \in MeshIds :
            /\ gpu_meshes[id] # <<>> <=> local_assets[id] # NoMesh
            /\ local_assets[id] # NoMesh <=> id \in live_meshes
            /\ event_order[id] = "added_then_removed" => gpu_meshes[id] = <<>>
            /\ event_order[id] = "removed_then_added" => gpu_meshes[id] # <<>>

C26_Witness ==
    /\ mesh_stage = "extract"
    /\ event_order = <<"none", "removed_then_added">>
    /\ gpu_meshes[1] # <<>>
    /\ gpu_meshes[2] # <<>>
    /\ live_meshes = {1, 2}


\* The mesh ids the Local map of prepare_mesh_assets holds.
Retained == {id \in MeshIds : local_assets[id] # NoMesh}

\* The number of elements of `field` the retained meshes below `id` have.
RECURSIVE TotalBelow(_, _)
TotalBelow(id, field) ==
    IF id <= 1 THEN 0
    ELSE TotalBelow(id - 1, field)
         + (IF id - 1 \in Retained
            THEN (CASE field = "vertex" -> VertexCount(local_assets[id - 1])
                    [] field = "primitive" -> PrimitiveCount(local_assets[id - 1])
                    [] OTHER -> NodeCount(local_assets[id - 1]))
            ELSE 0)

\* The elements of `buffer` from `offset` on are `data`.
HoldsAt(buffer, offset, data) ==
    /\ offset + Len(data) <= Len(buffer)
    /\ \A i \in 1..Len(data) : buffer[offset + i] = data[i]

\* C27: after a rebuild the slice of every retained mesh starts, in each of
\* the three buffers, at the total of the meshes of smaller id, node_len is
\* the number of its nodes, the buffer holds the mesh's data there, slices of
\* different meshes do not overlap, the buffers are as long as the retained
\* meshes' data together, and GpuMeshes has no entry for another id.
C27_SlicesAddressTheMeshData ==
    mesh_stage = "extract" =>
        /\ \A id \in Retained :
              LET mesh == local_assets[id]
                  slice == gpu_meshes[id][1].slice
              IN  /\ gpu_meshes[id][1].mesh = mesh
                  /\ slice.vertex = TotalBelow(id, "vertex")
                  /\ slice.primitive = TotalBelow(id, "primitive")
                  /\ slice.node_offset = TotalBelow(id, "node")
                  /\ slice.node_len = NodeCount(mesh)
                  /\ HoldsAt(render_assets.vertex_buffer, slice.vertex,
                             Vertices(mesh))
                  /\ HoldsAt(render_assets.primitive_buffer, slice.primitive,
                             Primitives(mesh))
                  /\ HoldsAt(render_assets.node_buffer, slice.node_offset,
                             Nodes(mesh))
                  /\ \A other \in Retained :
                        other > id =>
                            LET next == gpu_meshes[other][1].slice
                            IN  /\ slice.vertex + VertexCount(mesh) <= next.vertex
                                /\ slice.primitive + PrimitiveCount(mesh)
                                      <= next.primitive
                                /\ slice.node_offset + slice.node_len
                                      <= next.node_offset
        /\ Len(render_assets.vertex_buffer) = TotalBelow(LastMeshId + 1, "vertex")
        /\ Len(render_assets.primitive_buffer)
              = TotalBelow(LastMeshId + 1, "primitive")
        /\ Len(render_assets.node_buffer) = TotalBelow(LastMeshId + 1, "node")
        /\ \A id \in MeshIds \ Retained : gpu_meshes[id] = <<>>

C27_Witness ==
    /\ mesh_stage = "extract"
    /\ asset_state = "Updated"
    /\ local_assets = <<"gpu_quad", "gpu_mesh">>
    /\ gpu_meshes[2][1].slice =
          [vertex |-> 4, primitive |-> 2, node_offset |-> 3, node_len |-> 1]
    /\ Len(render_assets.vertex_buffer) = 7
    /\ event_order[1] = "removed_then_added"


\* The material ids StandardMaterials holds.
MaterialKeys == {id \in MaterialIds : standard_materials[id] # <<>>}
\* The rank of a material id among the ids StandardMaterials holds.
Rank(id) == Cardinality({other \in MaterialKeys : other < id})

\* C28: after a run of prepare_material_assets that did not return early,
\* GpuStandardMaterials has the keys of StandardMaterials, the offset of a
\* material is the rank of its id, the offsets are 0..n-1 without
\* duplicates, and the material buffer holds at a material's offset the GPU
\* material stored for its id.
C28_OffsetsAddressTheBuffer ==
    (material_stage = "extract" /\ material_written) =>
        /\ \A id \in MaterialIds : gpu_materials[id] # <<>> <=> id \in MaterialKeys
        /\ \A id \in MaterialKeys :
              /\ gpu_materials[id][1].offset = <<Rank(id), 0>>
              /\ Rank(id) < Len(material_buffer)
              /\ material_buffer[Rank(id) + 1] = gpu_materials[id][1].material
              /\ gpu_materials[id][1].material.base_color
                    = standard_materials[id][1].base_color
        /\ \A id, other \in MaterialKeys :
              id # other =>
                  gpu_materials[id][1].offset # gpu_materials[other][1].offset
        /\ {gpu_materials[id][1].offset : id \in MaterialKeys}
              = {<<k, 0>> : k \in 0..(Cardinality(MaterialKeys) - 1)}
        /\ Len(material_buffer) = Cardinality(MaterialKeys)

C28_Witness ==
    /\ material_stage = "extract"
    /\ material_written
    /\ MaterialKeys = {1, 2}
    /\ gpu_materials[1][1].offset = <<0, 0>>
    /\ gpu_materials[2][1].offset = <<1, 0>>
    /\ gpu_materials[1][1].material.base_color = "green"
    /\ material_buffer[2].base_color = "red"


\* The texture fields of StandardMaterial and GpuStandardMaterial.
TextureFields ==
    {"base_color_texture", "emissive_texture", "metallic_roughness_texture",
     "normal_map_texture", "occlusion_texture"}

\* The index is that of `handle` in MaterialRenderAssets.textures in sorted
\* order.
IndexOf(index, handle) ==
    /\ index[2] = 0
    /\ index[1] < Cardinality(material_textures)
    /\ handle \in material_textures
    /\ index[1] = Cardinality({other \in material_textures : other < handle})

\* C29 as claimed: every texture index prepare_material_assets writes into a
\* GpuStandardMaterial is u32::MAX exactly when the material has no such
\* texture, and otherwise the index of that very handle among the entries of
\* MaterialRenderAssets.textures in sorted order.
C29_TextureIndicesAreValid ==
    (material_stage = "extract" /\ material_written) =>
        \A id \in MaterialKeys, field \in TextureFields :
            LET index == gpu_materials[id][1].material[field]
                handle == standard_materials[id][1][field]
            IN  /\ index = <<65535, 65535>> <=> handle = NoTexture
                /\ handle # NoTexture => IndexOf(index, handle)


\* prepare_generic_material_assets leaves StandardMaterials alone in a frame
\* in which extract_material_assets reported nothing.
NoReportNoMutation ==
    [][(material_stage = "pre_prepare" /\ ~frame_reported) =>
           /\ standard_materials' = standard_materials
           /\ materials_changed' = materials_changed]_vars

\* After a frame in which extract_material_assets reported something the
\* table is the one built from all the materials StandardMaterials holds.
ReportRebuildsTheTable ==
    (material_stage = "extract" /\ frame_reported) =>
        /\ material_written
        /\ Len(material_buffer) = Cardinality(MaterialKeys)
        /\ \A id \in MaterialIds : gpu_materials[id] # <<>> <=> id \in MaterialKeys
        /\ \A id \in MaterialKeys :
              /\ material_buffer[Rank(id) + 1] =
                    GpuMaterialOf(material_textures, standard_materials[id][1])
              /\ gpu_materials[id][1].material = material_buffer[Rank(id) + 1]

\* C30 as claimed: in a frame in which extract_material_assets reported
\* nothing, prepare_generic_material_assets does not mutate StandardMaterials
\* and prepare_material_assets changes neither GpuStandardMaterials nor the
\* material buffer and writes no buffer; in a frame with a report the table
\* is rebuilt from all retained materials.
C30_NoReportNoWrite ==
    /\ NoReportNoMutation
    /\ [][(material_stage = "prepare" /\ ~frame_reported) =>
              /\ gpu_materials' = gpu_materials
              /\ material_buffer' = material_buffer
              /\ ~material_written']_vars
    /\ []ReportRebuildsTheTable

\* C30, amended: the same for every frame but the one of the first run of
\* prepare_material_assets, which finds StandardMaterials changed whatever
\* was reported.
C30_NoReportNoWriteAfterFirstRun ==
    /\ NoReportNoMutation
    /\ [][(material_stage = "prepare" /\ ~frame_reported /\ prepare_has_run) =>
              /\ gpu_materials' = gpu_materials
              /\ material_buffer' = material_buffer
              /\ ~material_written']_vars
    /\ []ReportRebuildsTheTable

C30_Witness ==
    /\ material_stage = "extract"
    /\ prepare_has_run
    /\ ~frame_reported
    /\ ~material_written
    /\ MaterialKeys = {1, 2}
    /\ Len(material_buffer) = 2

====
